---------------------------- MODULE Spec2Model ----------------------------
(***************************************************************************)
(* FermentIQ backend: the streaming pipeline of Backend/services and       *)
(* Backend/main.py.                                                        *)
(*                                                                         *)
(*   SmsService        (services/sms_service.py)   alert state machine     *)
(*   StreamingService  (services/streaming_service.py)  cursors, per-tick  *)
(*                     comparison, history, alert dispatch, stream_loop    *)
(*   ConnectionManager, stream_data (main.py)  broadcast to subscribers    *)
(*                                                                         *)
(* Numbers: sensor values are integers in thousandths (5.5 pH = 5500),     *)
(* scores are kept exactly as 3000 * quality_score.                        *)
(***************************************************************************)
EXTENDS Integers, Sequences, FiniteSets, TLC

(***************************************************************************)
(* Bounds of the model.                                                    *)
(***************************************************************************)
\* samples per batch profile (the program generates int(72*60/30) = 144)
NumSamples == 2
\* samples of the golden standard (the shipped file holds 144 as well)
GsLen == 2
\* websockets that may connect during a run
NumClients == 2

(***************************************************************************)
(* Program constants.                                                      *)
(***************************************************************************)
FirstBatch == 1
LastBatch == 4
Batches == FirstBatch..LastBatch

None == "None"
Unknown == "unknown"

\* the statuses of the two classification schemes that reach SmsService
BandStatuses == {"perfect", "acceptable", "concerning", "failed"}
Statuses == BandStatuses \cup {"normal", "critical"}

VARIABLES
    \* ---- SmsService
    last_status,        \* dict batch -> status (a function on the batches seen)
    sms_client,         \* TRUE iff the Twilio client was constructed
    sms_calls,          \* check_alert_condition calls made by the last operation
    alert_threads,      \* the threads started for send_alert
    \* ---- StreamingService
    batch_data,         \* dict batch -> profile (empty before initialize)
    current_index,      \* dict batch -> cursor
    batch_history,      \* dict batch -> list of result envelopes
    is_running,         \* stream_loop's flag
    golden_loaded,      \* comparator.golden_standard is not None
    tick_results,       \* what the last process_all_batches call returned
    tick_count,         \* number of process_all_batches calls made
    \* ---- HTTP reader of the history
    held,               \* the list a reader was handed and what it showed then (at most one)
    lock,               \* StreamingService._lock: 0 when free, else the caller holding it
    callers,            \* the callers of get_next_data_point: position, locals, samples returned
    \* ---- the MQTT services
    publisher,          \* MQTTPublisher: batch_data, current_index, points published per batch, the last of them
    subscriber,         \* MQTTSubscriber: batch_history, the message last handled, callback invocations, errors printed
    call,               \* the last request a caller made and what it was answered
    \* ---- main.py
    active_connections, \* ConnectionManager.active_connections
    latest_data,        \* ConnectionManager.latest_data
    driver,             \* which run loop drives the service
    drv_pc,             \* position of the run loop
    pending_results,    \* results of the current tick not yet broadcast
    bcast,              \* state of the broadcast in progress
    sent_to,            \* subscribers the current broadcast message was written to
    clients,            \* each websocket's life: "new", "open", "closed"
    initial_state,      \* the initial_state messages received, per websocket
                        \* whose inbox is observed
    \* ---- FermentationDataGenerator
    np_random,          \* the state of numpy's global generator
    generators,         \* the instances constructed and what each generated
    \* ---- process_all_batches, statement by statement
    tick_frame          \* the call of process_all_batches in progress, if any

smsVars == <<last_status, sms_client, golden_loaded, sms_calls, alert_threads>>
svcVars == <<batch_data, current_index, batch_history, is_running,
             tick_results, tick_count>>
mainVars == <<active_connections, latest_data, driver, drv_pc,
              pending_results, bcast, sent_to, clients, initial_state>>
mainVarsButPc == <<active_connections, latest_data, driver,
                   pending_results, bcast, sent_to, clients, initial_state>>
genVars == <<np_random, generators>>
lockVars == <<lock, callers>>
mqttVars == <<publisher, subscriber>>
vars == <<smsVars, svcVars, held, genVars, lockVars, mqttVars, tick_frame, call, mainVars>>

(***************************************************************************)
(* SmsService.check_alert_condition                                        *)
(***************************************************************************)
\* a variant in which every status alerts on the first observation
AlertOnStartup_AnyStatus == Statuses

\* statuses that alert on the first observation of a batch
AlertOnStartup == {"warning", "critical", "failed", "concerning"}

\* a variant that reports only changes into a bad status
CheckAlertRet_OnlyDegrading(ls, b, s) ==
    IF b \notin DOMAIN ls
    THEN IF s \in AlertOnStartup THEN Unknown ELSE None
    ELSE IF s # ls[b] /\ s \in AlertOnStartup THEN ls[b] ELSE None

\* a variant that alerts on every first observation but that of "perfect"
CheckAlertRet_AllButPerfect(ls, b, s) ==
    IF b \notin DOMAIN ls
    THEN IF s # "perfect" THEN Unknown ELSE None
    ELSE IF s # ls[b] THEN ls[b] ELSE None

\* the value check_alert_condition(b, s) returns when the dict is ls
CheckAlertRet(ls, b, s) ==
    IF b \notin DOMAIN ls
    THEN IF s \in AlertOnStartup THEN Unknown ELSE None
    ELSE IF s # ls[b] THEN ls[b] ELSE None

\* a variant that records a first observation only when it alerts
CheckAlertState_RecordOnAlert(ls, b, s) ==
    IF b \notin DOMAIN ls
    THEN IF s \in AlertOnStartup
         THEN [x \in DOMAIN ls \cup {b} |-> IF x = b THEN s ELSE ls[x]]
         ELSE ls
    ELSE IF s # ls[b] THEN [ls EXCEPT ![b] = s] ELSE ls

\* the dict after check_alert_condition(b, s): the status is stored on the
\* first observation and on a change, and the dict is left alone otherwise
CheckAlertState(ls, b, s) ==
    IF b \notin DOMAIN ls
    THEN [x \in DOMAIN ls \cup {b} |-> IF x = b THEN s ELSE ls[x]]
    ELSE IF s # ls[b] THEN [ls EXCEPT ![b] = s] ELSE ls

\* the record kept of one call
CallRecord(ls, b, s) ==
    [batch |-> b, status |-> s,
     seen |-> b \in DOMAIN ls,
     before |-> IF b \in DOMAIN ls THEN ls[b] ELSE None,
     ret |-> CheckAlertRet(ls, b, s)]

(***************************************************************************)
(* Golden standard and the generated batch profiles                        *)
(***************************************************************************)
\* the ideal trajectory, by sample number (1-based)
Ideal(i) == [ph |-> 5500 - 30 * (i - 1),
             temperature |-> 19000 + 500 * (i - 1),
             co2 |-> 500 * (i - 1)]

\* DataComparator.golden_standard as loaded by the constructor: the
\* constructor raises when the file cannot be read, so a constructed service
\* always holds one
GoldenStandard == [i \in 1..GsLen |-> Ideal(i)]

\* offsets from the ideal that the generator's noise and degradation produce,
\* one per quality band (perfect, acceptable, concerning, failed)
Offsets == << [ph |-> 0,   temperature |-> 0,    co2 |-> 0],
              [ph |-> 200, temperature |-> 0,    co2 |-> 0],
              [ph |-> 200, temperature |-> 1500, co2 |-> 0],
              [ph |-> 800, temperature |-> 0,    co2 |-> 0] >>
NumOffsets == Len(Offsets)

\* the random draws of one initialize(): the batch whose samples leave the
\* ideal trajectory and, per sample number, the offset it gets (index into
\* Offsets); the other batches follow the ideal trajectory
Draws == [who : Batches, off : [1..NumSamples -> 1..NumOffsets]]

\* The draws of the run-loop specifications and of regeneration: the first
\* batch deviates by one constant offset, so that each band of status occurs;
\* which values were drawn changes neither where the loop suspends nor when
\* it ends.
RunDraws == {d \in Draws : d.who = FirstBatch /\ \A i \in 1..NumSamples : d.off[i] = d.off[1]}

\* generate_batch_profile(batch_number) under the draws d
GenerateBatchProfile(d, b) ==
    [i \in 1..NumSamples |->
        LET o == IF b = d.who THEN Offsets[d.off[i]] ELSE Offsets[1]
        IN  [timestamp |-> i - 1,
             ph |-> Ideal(i).ph + o.ph,
             temperature |-> Ideal(i).temperature + o.temperature,
             co2 |-> Ideal(i).co2 + o.co2]]

\* StreamingService.initialize
InitializeData(d) == [b \in Batches |-> GenerateBatchProfile(d, b)]

EmptyDict == [x \in {} |-> None]

(***************************************************************************)
(* StreamingService.compare_data_point                                     *)
(***************************************************************************)
Abs(x) == IF x < 0 THEN -x ELSE x
Max0(x) == IF x < 0 THEN 0 ELSE x

\* a variant that never reports "critical"
GetStatus_NoCritical(dev, warn, crit) ==
    IF dev < warn THEN "normal" ELSE "warning"

\* get_status(dev, warn_thresh, crit_thresh)
GetStatus(dev, warn, crit) ==
    IF dev < warn THEN "normal" ELSE IF dev < crit THEN "warning" ELSE "critical"

\* 3000 * quality_score for the three deviations (thousandths):
\* ph_score = max(0, 100*(1 - dev/1.0)), temp and co2 over 5.0
QualityScore3000(dph, dtemp, dco2) ==
    Max0(100000 - 100 * dph) + Max0(100000 - 20 * dtemp) + Max0(100000 - 20 * dco2)

\* a variant whose bands exclude their lower edge
OverallStatus_Strict(q3000) ==
    IF q3000 > 285000 THEN "perfect"
    ELSE IF q3000 > 270000 THEN "acceptable"
    ELSE IF q3000 > 240000 THEN "concerning"
    ELSE "failed"

\* the banding of the quality score: >= 95, >= 90, >= 80
OverallStatus(q3000) ==
    IF q3000 >= 285000 THEN "perfect"
    ELSE IF q3000 >= 270000 THEN "acceptable"
    ELSE IF q3000 >= 240000 THEN "concerning"
    ELSE "failed"

\* gs[idx] if idx < len(gs) else gs[-1]   (idx is 0-based)
IdealAt(idx) == IF idx < Len(GoldenStandard)
                THEN GoldenStandard[idx + 1]
                ELSE GoldenStandard[Len(GoldenStandard)]

CompareDataPoint(b, dp) ==
    LET ideal == IdealAt(dp.sample_index)
        dph   == Abs(dp.ph - ideal.ph)
        dtemp == Abs(dp.temperature - ideal.temperature)
        dco2  == Abs(dp.co2 - ideal.co2)
        q     == QualityScore3000(dph, dtemp, dco2)
    IN  [batch_number |-> b,
         sample_index |-> dp.sample_index,
         deviations |-> [ph |-> dph, temperature |-> dtemp, co2 |-> dco2],
         status |-> [ph |-> GetStatus(dph, 300, 500),
                     temperature |-> GetStatus(dtemp, 2000, 3500),
                     co2 |-> GetStatus(dco2, 1500, 3000),
                     overall |-> OverallStatus(q)],
         \* round(quality_score, 1), in tenths
         quality_score |-> (q + 150) \div 300]

(***************************************************************************)
(* StreamingService.get_next_data_point                                    *)
(***************************************************************************)
\* a variant that reads the profile from its end
DataPoint_FromEnd(bd, b, idx) ==
    [batch_number |-> b,
     timestamp |-> bd[b][Len(bd[b]) - idx].timestamp,
     ph |-> bd[b][Len(bd[b]) - idx].ph,
     temperature |-> bd[b][Len(bd[b]) - idx].temperature,
     co2 |-> bd[b][Len(bd[b]) - idx].co2,
     sample_index |-> idx,
     total_samples |-> Len(bd[b])]

\* the data point of batch b at cursor idx (0-based)
DataPoint(bd, b, idx) ==
    [batch_number |-> b,
     timestamp |-> bd[b][idx + 1].timestamp,
     ph |-> bd[b][idx + 1].ph,
     temperature |-> bd[b][idx + 1].temperature,
     co2 |-> bd[b][idx + 1].co2,
     sample_index |-> idx,
     total_samples |-> Len(bd[b])]

\* a variant that stops one sample early
Exhausted_OneEarly(bd, ci, b) == ci[b] + 1 >= Len(bd[b])

\* idx >= len(batch["timestamps"]): get_next_data_point returns None
Exhausted(bd, ci, b) == ci[b] >= Len(bd[b])

(***************************************************************************)
(* StreamingService.process_all_batches                                    *)
(***************************************************************************)
\* a variant that calls send_alert inline instead of in a thread of its own
StartAlertThread_Inline(threads, b, idx, cur, prev) ==
    threads \cup {[batch |-> b, index |-> idx, current |-> cur,
                   previous |-> prev, pc |-> "started", attempts |-> 0,
                   detached |-> FALSE]}

\* threading.Thread(target=send_alert, args=(b, cur, prev, details)).start()
StartAlertThread(threads, b, idx, cur, prev) ==
    threads \cup {[batch |-> b, index |-> idx, current |-> cur,
                   previous |-> prev, pc |-> "started", attempts |-> 0,
                   detached |-> TRUE]}

\* a variant that keeps only the most recent entry of a history
AppendHistory_KeepLast(h, result) == <<result>>

\* self.batch_history[batch_num].append(result)
AppendHistory(h, result) == Append(h, result)

\* the body of the loop of process_all_batches for batch b, on the state st
\* (cursors, alert state, threads, histories, the results so far)
ProcessBatch(st, bd, b) ==
    IF Exhausted(bd, st.current_index, b)
    THEN st
    ELSE LET idx == st.current_index[b]
             dp == DataPoint(bd, b, idx)
             comparison == CompareDataPoint(b, dp)
             result == [batch_number |-> b, data_point |-> dp,
                        comparison |-> comparison]
             cur == comparison.status.overall
             prev == CheckAlertRet(st.last_status, b, cur)
         IN  [current_index |-> [st.current_index EXCEPT ![b] = idx + 1],
              last_status |-> CheckAlertState(st.last_status, b, cur),
              sms_calls |-> Append(st.sms_calls, CallRecord(st.last_status, b, cur)),
              alert_threads |-> IF prev # None
                                THEN StartAlertThread(st.alert_threads, b, idx, cur, prev)
                                ELSE st.alert_threads,
              results |-> Append(st.results, result),
              batch_history |-> [st.batch_history EXCEPT
                                   ![b] = AppendHistory(@, result)]]

RECURSIVE ProcessBatchesFrom(_, _, _)
\* for batch_num in range(b, 5)
ProcessBatchesFrom(st, bd, b) ==
    IF b > LastBatch THEN st
    ELSE CHOOSE r \in {ProcessBatchesFrom(s, bd, b + 1) :
                          s \in {ProcessBatch(st, bd, b)}} : TRUE

\* the profiles get_next_data_point works on: generated on the first call
\* when initialize() has not run
LazyData == IF DOMAIN batch_data = {}
            THEN {InitializeData(d) : d \in Draws}
            ELSE {batch_data}

\* a caller goes on only when the calls it made inline have returned
NoInlineDelivery == \A t \in alert_threads : t.detached \/ t.pc # "started"

\* one call of process_all_batches on the profiles bd
DoTick(bd) ==
    \E st0 \in {[current_index |-> current_index, last_status |-> last_status,
                  sms_calls |-> <<>>, alert_threads |-> alert_threads,
                  results |-> <<>>, batch_history |-> batch_history]} :
      \E st \in {ProcessBatchesFrom(st0, bd, FirstBatch)} :
        /\ batch_data' = bd
        /\ current_index' = st.current_index
        /\ last_status' = st.last_status
        /\ sms_calls' = st.sms_calls
        /\ alert_threads' = st.alert_threads
        /\ batch_history' = st.batch_history
        /\ tick_results' = st.results
        /\ tick_count' = tick_count + 1

\* compare_data_point as the tick calls it: {"error": ...} when the comparator
\* holds no golden standard
CompareOrError(loaded, b, dp) ==
    IF loaded THEN CompareDataPoint(b, dp)
    ELSE [error |-> "Golden standard not loaded"]

\* the first batch of the loop that still has a sample (0 when none has)
FirstLive(bd, ci) ==
    IF \A b \in Batches : Exhausted(bd, ci, b) THEN 0
    ELSE CHOOSE b \in Batches :
            /\ ~Exhausted(bd, ci, b)
            /\ \A x \in Batches : x < b => Exhausted(bd, ci, x)

\* comparison["status"]["overall"] raises KeyError: the comparison of the
\* first sample fetched has no "status"
CompareFails(bd) ==
    LET b == FirstLive(bd, current_index)
    IN  /\ b # 0
        /\ "status" \notin DOMAIN CompareOrError(golden_loaded, b,
                                   DataPoint(bd, b, current_index[b]))

\* one call of process_all_batches that raises at its first comparison: the
\* cursor of that batch has advanced, nothing is appended or returned
TickRaises(bd) ==
    /\ CompareFails(bd)
    /\ batch_data' = bd
    /\ current_index' = [current_index EXCEPT ![FirstLive(bd, current_index)] = @ + 1]
    /\ tick_count' = tick_count + 1
    /\ UNCHANGED <<last_status, sms_calls, alert_threads, batch_history,
                   tick_results>>

\* get_batch_history(batch_num): the list object itself, or a new empty list
GetBatchHistory(h, b) == IF b \notin DOMAIN h THEN <<>> ELSE h[b]

(***************************************************************************)
(* The state after construction                                            *)
(***************************************************************************)
Clients == 1..NumClients
\* no broadcast in progress; cur = 0 stands for no websocket
NoBroadcast == [state |-> "idle", size |-> 0, orig |-> {}, visited |-> {},
                cur |-> 0, disconnected |-> {}, unsent |-> {}, stale |-> {}]

\* numpy's global generator as a process starts: seeded by numpy itself, in
\* a state that no seed argument of the program reproduces
Unseeded == [seed |-> 0, pos |-> 0]

\* no call of process_all_batches in progress
NoFrame == [stage |-> "idle", batch |-> 0, data_point |-> <<>>,
            comparison |-> <<>>, results |-> <<>>]

\* no FermentationDataGenerator constructed yet
NoGenerators == [g \in {} |-> None]

\* the callers of get_next_data_point that run at the same time
NumCallers == 2
Callers == 1..NumCallers

\* no caller is inside get_next_data_point, none has been returned a sample
NoCallers == [t \in Callers |-> [pc |-> "idle", batch |-> 0, idx |-> 0, got |-> {}]]

\* MQTTPublisher as constructed: no profiles, every cursor at 0
NoPublisher == [batch_data |-> << >>,
                current_index |-> [b \in FirstBatch..LastBatch |-> 0],
                published |-> [b \in FirstBatch..LastBatch |-> 0],
                last |-> << >>]

\* MQTTSubscriber as constructed: empty histories, no message handled
NoSubscriber == [batch_history |-> [b \in FirstBatch..LastBatch |-> << >>],
                 received |-> 0, callbacks |-> 0, errors |-> 0,
                 last |-> [batch |-> 0, payload |-> "none"]]

\* no websocket's inbox is observed
NoInbox == [c \in {} |-> <<>>]

\* no request made yet
NoCall == [n |-> 0, op |-> "none", batch |-> 0, status |-> "none", body |-> <<>>]

\* the objects as constructed, no run loop started
InitObjects ==
    /\ last_status = EmptyDict
    /\ sms_client \in BOOLEAN
    /\ sms_calls = <<>>
    /\ alert_threads = {}
    /\ batch_data = EmptyDict
    /\ current_index = [b \in Batches |-> 0]
    /\ batch_history = [b \in Batches |-> <<>>]
    /\ is_running = FALSE
    /\ tick_results = <<>>
    /\ tick_count = 0
    /\ held = {}
    /\ np_random = Unseeded
    /\ generators = NoGenerators
    /\ tick_frame = NoFrame
    /\ lock = 0
    /\ callers = NoCallers
    /\ publisher = NoPublisher
    /\ subscriber = NoSubscriber
    /\ call = NoCall
    /\ active_connections = {}
    /\ latest_data = EmptyDict
    /\ pending_results = <<>>
    /\ bcast = NoBroadcast
    /\ sent_to = {}
    /\ clients = [c \in Clients |-> "new"]

\* the service used through its methods, no run loop
InitState ==
    /\ InitObjects
    /\ golden_loaded = TRUE
    /\ initial_state = NoInbox
    /\ driver = None
    /\ drv_pc = "idle"

(***************************************************************************)
(* SmsService on its own: any caller, any status                           *)
(***************************************************************************)
CheckAlertCall(b, s) ==
    /\ last_status' = CheckAlertState(last_status, b, s)
    /\ sms_calls' = <<CallRecord(last_status, b, s)>>
    /\ UNCHANGED <<sms_client, golden_loaded, alert_threads, svcVars, held, genVars, lockVars, mqttVars, tick_frame, call, mainVars>>

NextSms == \E b \in Batches, s \in Statuses : CheckAlertCall(b, s)

SpecSms == InitState /\ [][NextSms]_vars

(***************************************************************************)
(* Claims about SmsService.check_alert_condition (checked under SpecSms)   *)
(***************************************************************************)
\* C1: for a batch already observed, check_alert_condition returns the
\* recorded status exactly when the current status differs from it and
\* nothing when they are equal, whatever was reported before (no cooldown).
C1_ChangeReported ==
    \A i \in DOMAIN sms_calls :
        sms_calls[i].seen =>
            sms_calls[i].ret = IF sms_calls[i].status # sms_calls[i].before
                               THEN sms_calls[i].before
                               ELSE None

\* a batch recorded as "failed" (a status that was alerted when it was
\* recorded) is observed as "concerning", and the change is reported
C1_Witness ==
    \E i \in DOMAIN sms_calls :
        /\ sms_calls[i].seen
        /\ sms_calls[i].before = "failed"
        /\ sms_calls[i].status = "concerning"
        /\ sms_calls[i].ret = "failed"

\* C2 as claimed: on the first observation of a batch a transition from
\* "unknown" is reported for every status but the best/normal one, and
\* nothing is returned only for the best/normal one.
C2_Original ==
    \A i \in DOMAIN sms_calls :
        ~sms_calls[i].seen =>
            sms_calls[i].ret = IF sms_calls[i].status \in {"perfect", "normal"}
                               THEN None
                               ELSE Unknown

\* C2 as amended: on the first observation a transition from "unknown" is
\* reported exactly for the statuses warning, critical, failed and concerning
\* (on the streaming path: concerning and failed); for every other status,
\* "acceptable" included, nothing is returned. The status is recorded in
\* both cases.
C2_FirstObservation ==
    \A i \in DOMAIN sms_calls :
        ~sms_calls[i].seen =>
            /\ sms_calls[i].ret =
                  IF sms_calls[i].status \in {"warning", "critical", "failed", "concerning"}
                  THEN Unknown
                  ELSE None
            /\ sms_calls[i].batch \in DOMAIN last_status
            /\ last_status[sms_calls[i].batch] = sms_calls[i].status

\* a first observation with status "acceptable", recorded without a report
C2_Witness ==
    \E i \in DOMAIN sms_calls :
        /\ ~sms_calls[i].seen
        /\ sms_calls[i].status = "acceptable"
        /\ sms_calls[i].ret = None
        /\ last_status[sms_calls[i].batch] = "acceptable"

(***************************************************************************)
(* SmsService.send_alert, run in the thread started for it                 *)
(***************************************************************************)
\* SMS_CONFIG["enabled"]
SmsEnabled == TRUE

\* a variant that calls the provider again after a failed delivery
SendAlert_Retry(t, client, outcome) ==
    IF ~SmsEnabled THEN [t EXCEPT !.pc = "returned"]
    ELSE IF client
         THEN [t EXCEPT !.attempts = @ + 1,
                        !.pc = IF outcome = "ok" THEN "sent" ELSE "started"]
         ELSE [t EXCEPT !.pc = "simulated"]

\* the thread after send_alert returned: with a Twilio client one call of
\* messages.create, whose exception is caught and printed; without one the
\* message is printed to the console
SendAlert(t, client, outcome) ==
    IF ~SmsEnabled THEN [t EXCEPT !.pc = "returned"]
    ELSE IF client
         THEN [t EXCEPT !.attempts = @ + 1,
                        !.pc = IF outcome = "ok" THEN "sent" ELSE "failed"]
         ELSE [t EXCEPT !.pc = "simulated"]

\* what the provider can answer
Outcomes == IF sms_client THEN {"ok", "error"} ELSE {"ok"}

\* send_alert returns in thread t; a delivery that never returns takes no step
SendAlertReturns(t, outcome) ==
    /\ t \in alert_threads
    /\ t.pc = "started"
    /\ alert_threads' = (alert_threads \ {t}) \cup {SendAlert(t, sms_client, outcome)}
    /\ UNCHANGED <<last_status, sms_client, golden_loaded, sms_calls, svcVars, held, genVars, lockVars, mqttVars, tick_frame, call, mainVars>>

(***************************************************************************)
(* StreamingService called directly: initialize, process_all_batches,      *)
(* get_batch_history                                                       *)
(***************************************************************************)
\* calls of process_all_batches explored: all samples, and two calls after
MaxTicks == NumSamples + 2

Initialize ==
    /\ DOMAIN batch_data = {}
    /\ \E d \in Draws : batch_data' = InitializeData(d)
    /\ UNCHANGED <<smsVars, current_index, batch_history, is_running,
                   tick_results, tick_count, held, genVars, lockVars, mqttVars, tick_frame, call, mainVars>>

ProcessAllBatches ==
    /\ tick_count < MaxTicks
    /\ NoInlineDelivery
    /\ \E bd \in LazyData : DoTick(bd)
    /\ UNCHANGED <<sms_client, golden_loaded, is_running, held, genVars, lockVars, mqttVars, tick_frame, call, mainVars>>

\* a caller of get_batch_history(b) is handed the list
ReadHistory(b) ==
    /\ held' = {[batch |-> b, ref |-> b \in DOMAIN batch_history,
                 seen |-> GetBatchHistory(batch_history, b)]}
    /\ UNCHANGED <<smsVars, svcVars, genVars, lockVars, mqttVars, tick_frame, call, mainVars>>

\* batch numbers a caller may pass: the four batches and one on either side
BatchArgs == (FirstBatch - 1)..(LastBatch + 1)

\* the service and the readers of its history
NextHistory ==
    \/ Initialize
    \/ ProcessAllBatches
    \/ \E b \in BatchArgs : ReadHistory(b)

SpecHistory == InitState /\ [][NextHistory]_vars

\* the service and the threads it starts for send_alert
NextAlerts ==
    \/ Initialize
    \/ ProcessAllBatches
    \/ \E t \in alert_threads, o \in Outcomes : SendAlertReturns(t, o)

SpecAlerts == InitState /\ [][NextAlerts]_vars

(***************************************************************************)
(* Claims about process_all_batches and the history (under SpecHistory)    *)
(***************************************************************************)
IsPrefix(s, t) == Len(s) <= Len(t) /\ SubSeq(t, 1, Len(s)) = s

\* the batches that still have a sample to hand out (before initialize()
\* has run every batch has: it generates NumSamples > 0 samples)
NotExhausted(b) == DOMAIN batch_data = {} \/ current_index[b] < Len(batch_data[b])

\* C3: every call of process_all_batches returns a list whose length is the
\* number of batches not exhausted before the call, with exactly one result
\* per such batch; once all four are exhausted every call returns an empty list.
C3_OneResultPerLiveBatch ==
    [][tick_count' = tick_count + 1 =>
        LET live == {b \in Batches : NotExhausted(b)}
        IN  /\ Len(tick_results') = Cardinality(live)
            /\ \A b \in live :
                 Cardinality({i \in DOMAIN tick_results' :
                                tick_results'[i].batch_number = b}) = 1
            /\ (live = {} => tick_results' = <<>>)]_vars

\* a call made after all four batches were exhausted has returned an empty list
C3_Witness ==
    /\ tick_count > NumSamples
    /\ \A b \in Batches : current_index[b] = NumSamples
    /\ tick_results = <<>>

\* C5: each batch's history is append-only and ordered: an envelope once
\* appended stays, unmodified and in place; get_batch_history returns all of
\* them (one per sample taken so far), and an empty list for a batch id
\* that has no history.
C5_AppendOnlyHistory ==
    [][/\ \A b \in Batches :
            /\ IsPrefix(batch_history[b], batch_history'[b])
            /\ Len(batch_history'[b]) = current_index'[b]
            /\ \A i \in DOMAIN batch_history'[b] :
                 /\ batch_history'[b][i].batch_number = b
                 /\ batch_history'[b][i].data_point.sample_index = i - 1
       /\ \A h \in held' \ held :
            h.seen = IF h.batch \in Batches THEN batch_history[h.batch] ELSE <<>>]_vars

\* a reader was handed a history of two envelopes
C5_Witness ==
    \E h \in held :
        /\ h.batch \in Batches
        /\ Len(h.seen) >= 2
        /\ h.seen = batch_history[h.batch]

\* the list a reader holds, as it is now
HeldView(h) == IF h.ref THEN batch_history[h.batch] ELSE <<>>

\* C6 as claimed: a history sequence handed to a reader is never changed by
\* an append that happens after the read returned (the reader has a copy, or
\* read and append exclude each other).
C6_ReaderUnaffected == \A h \in held : HeldView(h) = h.seen

(***************************************************************************)
(* Claims about alert dispatch (under SpecAlerts)                          *)
(***************************************************************************)
\* the overall status of the envelope of batch b at sample index i
StatusAt(b, i) == batch_history[b][i + 1].comparison.status.overall

\* the transition check_alert_condition reports for sample index i of batch b
ReportedAt(b, i) ==
    IF i = 0 THEN StatusAt(b, 0) \in AlertOnStartup
    ELSE StatusAt(b, i) # StatusAt(b, i - 1)

\* C7: whether a delivery succeeds, fails or never returns, the tick that
\* started it has completed (its envelope is in the history and the cursor
\* has moved on), and the caller is free to make the next call of
\* process_all_batches: no delivery holds it up.
C7_DispatchNeverBlocks ==
    /\ \A t \in alert_threads :
         /\ t.index < current_index[t.batch]
         /\ Len(batch_history[t.batch]) > t.index
         /\ StatusAt(t.batch, t.index) = t.current
    /\ NoInlineDelivery

\* the delivery started at the first tick has not returned, the one started
\* at the second has failed, and a third call has been made all the same
C7_Witness ==
    /\ \E t \in alert_threads : t.pc = "started" /\ t.index = 0
    /\ \E t \in alert_threads : t.pc = "failed" /\ t.index = 1
    /\ tick_count >= 3

\* C8: each reported transition has exactly one delivery attempt; a failed
\* delivery is not retried and changes neither the alert state nor a cursor
\* or a history, so that the status recorded stays that of the last envelope
\* and a repeated status starts no new delivery.
C8_OneAttemptNoRetry ==
    /\ \A b \in Batches : \A i \in 0..(Len(batch_history[b]) - 1) :
         Cardinality({t \in alert_threads : t.batch = b /\ t.index = i})
            = IF ReportedAt(b, i) THEN 1 ELSE 0
    /\ \A t \in alert_threads :
         /\ t.attempts <= 1
         /\ t.pc \in {"sent", "failed"} => t.attempts = 1
         /\ t.pc \in {"started", "sent", "failed", "simulated"}
    /\ \A b \in Batches :
         /\ current_index[b] = Len(batch_history[b])
         /\ IF batch_history[b] = <<>>
            THEN b \notin DOMAIN last_status
            ELSE /\ b \in DOMAIN last_status
                 /\ last_status[b] = StatusAt(b, Len(batch_history[b]) - 1)

\* a delivery for sample 0 of a batch failed, the batch was observed again
\* with the same status, and the failed delivery stayed the only one
C8_Witness ==
    \E t \in alert_threads :
        /\ t.pc = "failed"
        /\ t.index = 0
        /\ Len(batch_history[t.batch]) = 2
        /\ StatusAt(t.batch, 1) = t.current
        /\ {u \in alert_threads : u.batch = t.batch} = {t}

(***************************************************************************)
(* main.py: ConnectionManager and the websocket endpoint                   *)
(***************************************************************************)
\* The run loop and the endpoints are coroutines of one event loop: another
\* coroutine runs only while the run loop is suspended in an await (a write
\* to a websocket, the sleep), before it first runs, or after it ended.
DriverSuspended == drv_pc \in {"idle", "start", "await_send", "sleep",
                               "done", "crashed", "stopped"}

\* if self.latest_data: await websocket.send_json({"type": "initial_state",
\* "data": self.latest_data, ...}): the messages of that type sent on joining
InitialState(ld) == IF DOMAIN ld # {} THEN <<ld>> ELSE <<>>

\* websocket_endpoint: manager.connect(websocket)
Connect(c) ==
    /\ driver = "stream_data"
    /\ DriverSuspended
    /\ clients[c] = "new"
    /\ clients' = [clients EXCEPT ![c] = "open"]
    /\ active_connections' = active_connections \cup {c}
    /\ initial_state' = IF c \in DOMAIN initial_state
                        THEN [initial_state EXCEPT ![c] = InitialState(latest_data)]
                        ELSE initial_state
    /\ UNCHANGED <<smsVars, svcVars, held, genVars, lockVars, mqttVars, tick_frame, call, latest_data, driver, drv_pc,
                   pending_results, bcast, sent_to>>

\* websocket_endpoint: WebSocketDisconnect -> manager.disconnect(websocket)
Disconnect(c) ==
    /\ driver = "stream_data"
    /\ DriverSuspended
    /\ clients[c] = "open"
    /\ clients' = [clients EXCEPT ![c] = "closed"]
    /\ active_connections' = active_connections \ {c}
    /\ UNCHANGED <<initial_state, smsVars, svcVars, held, genVars, lockVars, mqttVars, tick_frame, call, latest_data, driver, drv_pc,
                   pending_results, bcast, sent_to>>

\* a variant that stores the envelope under the index of the sample after it
SetLatest_Ahead(ld, result) ==
    [x \in DOMAIN ld \cup {result.batch_number} |->
        IF x = result.batch_number
        THEN [result EXCEPT !.data_point.sample_index = @ + 1]
        ELSE ld[x]]

\* latest_data[batch_num] = result
SetLatest(ld, result) ==
    [x \in DOMAIN ld \cup {result.batch_number} |->
        IF x = result.batch_number THEN result ELSE ld[x]]

(***************************************************************************)
(* main.py: stream_data                                                    *)
(***************************************************************************)
\* streaming_service.initialize(), then the first pass of the loop
SD_Start ==
    /\ driver = "stream_data"
    /\ drv_pc = "start"
    /\ \E d \in RunDraws : batch_data' = InitializeData(d)
    /\ drv_pc' = "loop"
    /\ UNCHANGED <<smsVars, current_index, batch_history, is_running,
                   tick_results, tick_count, held, genVars, lockVars, mqttVars, tick_frame, call, active_connections,
                   latest_data, driver, pending_results, bcast, sent_to, clients, initial_state>>

AfterTick_NoBreak(results) == "publish"

\* if not results: break; otherwise the results are published one by one
AfterTick(results) == IF results = <<>> THEN "done" ELSE "publish"

\* a variant that runs the tick whether or not a subscriber is connected
SD_Loop_Ungated ==
    /\ driver = "stream_data"
    /\ drv_pc = "loop"
    /\ NoInlineDelivery
    /\ DoTick(batch_data)
    /\ pending_results' = tick_results'
    /\ drv_pc' = AfterTick(tick_results')
    /\ UNCHANGED <<sms_client, golden_loaded, is_running>>
    /\ UNCHANGED <<held, genVars, lockVars, mqttVars, tick_frame, call, active_connections, latest_data, driver, bcast,
                   sent_to, clients, initial_state>>

\* while True: if manager.active_connections: results = process_all_batches();
\* if not results: break
SD_Loop ==
    /\ driver = "stream_data"
    /\ drv_pc = "loop"
    /\ IF active_connections = {}
       THEN /\ drv_pc' = "sleep"
            /\ UNCHANGED <<smsVars, svcVars, pending_results>>
       ELSE /\ NoInlineDelivery
            /\ IF CompareFails(batch_data)
               THEN /\ TickRaises(batch_data)
                    /\ drv_pc' = "crashed"
                    /\ UNCHANGED pending_results
               ELSE /\ DoTick(batch_data)
                    /\ pending_results' = tick_results'
                    /\ drv_pc' = AfterTick(tick_results')
            /\ UNCHANGED <<sms_client, golden_loaded, is_running>>
    /\ UNCHANGED <<held, genVars, lockVars, mqttVars, tick_frame, call, active_connections, latest_data, driver, bcast,
                   sent_to, clients, initial_state>>

\* a variant that publishes the results of a tick from the last to the first
SD_Publish_LastFirst ==
    /\ driver = "stream_data"
    /\ drv_pc = "publish"
    /\ IF pending_results = <<>>
       THEN /\ drv_pc' = "sleep"
            /\ bcast' = NoBroadcast
            /\ UNCHANGED <<latest_data, sent_to>>
       ELSE /\ latest_data' = SetLatest(latest_data,
                                        pending_results[Len(pending_results)])
            /\ bcast' = [NoBroadcast EXCEPT !.state = "iterating",
                                           !.size = Cardinality(active_connections),
                                           !.orig = active_connections]
            /\ sent_to' = {}
            /\ drv_pc' = "bcast_next"
    /\ UNCHANGED <<smsVars, svcVars, held, genVars, lockVars, mqttVars, tick_frame, call, active_connections, driver,
                   pending_results, clients, initial_state>>

\* for result in results: latest_data[batch_num] = result, then
\* manager.broadcast(...) up to the creation of the set iterator; after the
\* last result the loop goes to its sleep
SD_Publish ==
    /\ driver = "stream_data"
    /\ drv_pc = "publish"
    /\ IF pending_results = <<>>
       THEN /\ drv_pc' = "sleep"
            /\ bcast' = NoBroadcast
            /\ UNCHANGED <<latest_data, sent_to>>
       ELSE /\ latest_data' = SetLatest(latest_data, Head(pending_results))
            /\ bcast' = [NoBroadcast EXCEPT !.state = "iterating",
                                           !.size = Cardinality(active_connections),
                                           !.orig = active_connections]
            /\ sent_to' = {}
            /\ drv_pc' = "bcast_next"
    /\ UNCHANGED <<smsVars, svcVars, held, genVars, lockVars, mqttVars, tick_frame, call, active_connections, driver,
                   pending_results, clients, initial_state>>

\* the subscribers of the set at the start of the loop that are still in it
\* and were not visited
Remaining == (bcast.orig \cap active_connections) \ bcast.visited

\* what the end of a broadcast leaves: subscribers of the start that are still
\* connected and were not written to, and subscribers whose write failed and
\* that are still in the set
EndOfBroadcast(b, st, active) ==
    [b EXCEPT !.state = st,
              !.unsent = (b.orig \cap active) \ (sent_to \cup b.disconnected),
              !.stale = b.disconnected \cap active]

\* for connection in self.active_connections: the next() of the set iterator.
\* It raises RuntimeError when the set changed size since the loop began,
\* and the error leaves broadcast and stream_data; otherwise it yields a
\* subscriber not yet visited (one added meanwhile may or may not come up),
\* or ends the loop: self.active_connections -= disconnected
BC_Next ==
    /\ driver = "stream_data"
    /\ drv_pc = "bcast_next"
    /\ IF Cardinality(active_connections) # bcast.size
       THEN /\ drv_pc' = "crashed"
            /\ bcast' = EndOfBroadcast(bcast, "raised", active_connections)
            /\ UNCHANGED <<active_connections, pending_results>>
       ELSE \/ \E c \in active_connections \ bcast.visited :
                 /\ bcast' = [bcast EXCEPT !.cur = c, !.visited = @ \cup {c}]
                 /\ drv_pc' = "await_send"
                 /\ UNCHANGED <<active_connections, pending_results>>
            \/ /\ Remaining = {}
               /\ active_connections' = active_connections \ bcast.disconnected
               /\ bcast' = EndOfBroadcast([bcast EXCEPT !.cur = 0], "returned",
                                          active_connections')
               /\ pending_results' = Tail(pending_results)
               /\ drv_pc' = "publish"
    /\ UNCHANGED <<smsVars, svcVars, held, genVars, lockVars, mqttVars, tick_frame, call, latest_data, driver, sent_to, clients, initial_state>>

\* await connection.send_json(message) returns: the message was written to c
WriteOk(c) ==
    /\ driver = "stream_data"
    /\ drv_pc = "await_send"
    /\ bcast.cur = c
    /\ clients[c] = "open"
    /\ sent_to' = sent_to \cup {c}
    /\ drv_pc' = "bcast_next"
    /\ UNCHANGED <<smsVars, svcVars, held, genVars, lockVars, mqttVars, tick_frame, call, active_connections, latest_data,
                   driver, pending_results, bcast, clients, initial_state>>

\* await connection.send_json(message) raises: except: disconnected.add(c)
WriteFail(c) ==
    /\ driver = "stream_data"
    /\ drv_pc = "await_send"
    /\ bcast.cur = c
    /\ bcast' = [bcast EXCEPT !.disconnected = @ \cup {c}]
    /\ drv_pc' = "bcast_next"
    /\ UNCHANGED <<smsVars, svcVars, held, genVars, lockVars, mqttVars, tick_frame, call, active_connections, latest_data,
                   driver, pending_results, sent_to, clients, initial_state>>

\* await asyncio.sleep(1.0) returns
SD_Sleep ==
    /\ driver = "stream_data"
    /\ drv_pc = "sleep"
    /\ drv_pc' = "loop"
    /\ UNCHANGED <<smsVars, svcVars, held, genVars, lockVars, mqttVars, tick_frame, call, active_connections, latest_data,
                   driver, pending_results, bcast, sent_to, clients, initial_state>>

(***************************************************************************)
(* StreamingService.stream_loop (no broadcast_callback set) and stop       *)
(***************************************************************************)
\* self.is_running = True; self.initialize()
SL_Start ==
    /\ driver = "stream_loop"
    /\ drv_pc = "start"
    /\ is_running' = TRUE
    /\ \E d \in RunDraws : batch_data' = InitializeData(d)
    /\ drv_pc' = "loop"
    /\ UNCHANGED <<smsVars, current_index, batch_history, tick_results,
                   tick_count, held, genVars, lockVars, mqttVars, tick_frame, call, mainVarsButPc>>

\* while self.is_running: results = process_all_batches(); if not results:
\* is_running = False; break
SL_Loop ==
    /\ driver = "stream_loop"
    /\ drv_pc = "loop"
    /\ IF ~is_running
       THEN /\ drv_pc' = "stopped"
            /\ UNCHANGED <<smsVars, svcVars>>
       ELSE /\ NoInlineDelivery
            /\ IF CompareFails(batch_data)
               THEN /\ TickRaises(batch_data)
                    /\ drv_pc' = "crashed"
                    /\ UNCHANGED is_running
               ELSE /\ DoTick(batch_data)
                    /\ is_running' = (tick_results' # <<>>)
                    /\ drv_pc' = IF tick_results' = <<>> THEN "done" ELSE "sleep"
            /\ UNCHANGED <<sms_client, golden_loaded>>
    /\ UNCHANGED <<held, genVars, lockVars, mqttVars, tick_frame, call, mainVarsButPc>>

\* await asyncio.sleep(interval_seconds) returns
SL_Sleep ==
    /\ driver = "stream_loop"
    /\ drv_pc = "sleep"
    /\ drv_pc' = "loop"
    /\ UNCHANGED <<smsVars, svcVars, held, genVars, lockVars, mqttVars, tick_frame, call, mainVarsButPc>>

\* StreamingService.stop(), called while the loop sleeps
Stop ==
    /\ driver = "stream_loop"
    /\ drv_pc = "sleep"
    /\ is_running
    /\ is_running' = FALSE
    /\ UNCHANGED <<smsVars, batch_data, current_index, batch_history,
                   tick_results, tick_count, held, genVars, lockVars, mqttVars, tick_frame, call, mainVars>>

(***************************************************************************)
(* The application: one run loop, the websockets that come and go          *)
(***************************************************************************)
Init ==
    /\ InitObjects
    /\ golden_loaded = TRUE
    /\ initial_state = NoInbox
    /\ driver \in {"stream_data", "stream_loop"}
    /\ drv_pc = "start"

\* the steps of the run loop itself
DriverStep ==
    \/ SD_Start \/ SD_Loop \/ SD_Publish \/ BC_Next \/ SD_Sleep
    \/ SL_Start \/ SL_Loop \/ SL_Sleep

\* a pending write to a websocket completes, one way or the other
WriteCompletes == \E c \in Clients : WriteOk(c) \/ WriteFail(c)

Next ==
    \/ DriverStep
    \/ WriteCompletes
    \/ Stop
    \/ \E c \in Clients : Connect(c)
    \/ \E c \in Clients : Disconnect(c)

Spec == Init /\ [][Next]_vars

\* the event loop runs a coroutine that can run, and a write that is not
\* stuck completes
FairSpec == Spec /\ WF_vars(DriverStep) /\ WF_vars(WriteCompletes)

(***************************************************************************)
(* Termination of the run loop                                             *)
(***************************************************************************)
AllExhausted ==
    /\ DOMAIN batch_data = Batches
    /\ \A b \in Batches : Exhausted(batch_data, current_index, b)

\* the run loop has ended: by its break, by stop(), or by an exception
Terminated == drv_pc \in {"done", "stopped", "crashed"}

\* C4, as stated: once all four batches are exhausted the run loop
\* (stream_loop as well as stream_data) eventually terminates.
C4_Original == (driver # None /\ AllExhausted) ~> Terminated

\* C4, amended: the run loop ends on the first tick it attempts after all
\* four batches are exhausted, and on no tick before that; a loop that ended
\* on its empty tick has performed exactly NumSamples non-empty ticks;
\* stream_data attempts a tick only while a subscriber is connected (with
\* none it keeps sleeping, exhausted or not).
C4_StopsOnEmptyTick ==
    [][ /\ (tick_count' = tick_count + 1) =>
            /\ (tick_results' = <<>>) <=> AllExhausted
            /\ (drv_pc' = "done") <=> AllExhausted
            /\ AllExhausted => tick_count = NumSamples
            /\ driver = "stream_data" => active_connections # {}
        /\ (drv_pc' = "done") =>
            /\ tick_count' = NumSamples + 1
            /\ tick_results' = <<>>
      ]_vars

\* stream_data ran to the end with a subscriber connected
C4_Witness ==
    /\ driver = "stream_data"
    /\ drv_pc = "done"
    /\ AllExhausted
    /\ tick_count = NumSamples + 1
    /\ active_connections # {}

(***************************************************************************)
(* Broadcast: failing and slow subscribers                                 *)
(***************************************************************************)
\* C9, as stated: when a broadcast is over, every subscriber whose write
\* failed is out of the set of active subscribers, and every other subscriber
\* that was connected throughout has been sent the message.
C9_FailedDroppedOthersServed ==
    bcast.state \in {"returned", "raised"} =>
        /\ bcast.stale = {}
        /\ bcast.unsent = {}

\* the subscribers of the current broadcast, other than the one being written
\* to, that are connected and have not been written to yet
Waiting == Remaining \ {bcast.cur}

\* C10, as stated: while the write to one subscriber is pending, the message
\* can be delivered to every other connected subscriber.
C10_SlowSubscriberIsolated ==
    drv_pc = "await_send" => \A d \in Waiting : ENABLED WriteOk(d)

(***************************************************************************)
(* Snapshot on join                                                        *)
(***************************************************************************)
Last(h) == h[Len(h)]

\* websocket c joins in this step
Joins(c) == clients[c] = "new" /\ clients'[c] = "open"

\* the batches that have produced at least one result
Produced == {b \in Batches : batch_history[b] # <<>>}

\* the application with the inbox of the first websocket observed
InitJoin ==
    /\ InitObjects
    /\ golden_loaded = TRUE
    /\ initial_state = [c \in {1} |-> <<>>]
    /\ driver \in {"stream_data", "stream_loop"}
    /\ drv_pc = "start"

SpecJoin == InitJoin /\ [][Next]_vars

\* C11, as stated: a subscriber that joins is sent one snapshot holding, for
\* every batch that has produced a result, the most recent envelope of that
\* batch's history; it is sent none when no batch has produced a result.
C11_SnapshotIsLastOfHistory ==
    [][\A c \in DOMAIN initial_state : Joins(c) =>
          initial_state'[c] =
              IF Produced = {} THEN <<>>
              ELSE <<[b \in Produced |-> Last(batch_history[b])]>>
      ]_vars

(***************************************************************************)
(* The run loop when the golden standard may be absent                     *)
(***************************************************************************)
\* comparator.golden_standard is None when the file read by the constructor
\* holds null; compare_data_point tests for it
InitRef ==
    /\ InitObjects
    /\ initial_state = NoInbox
    /\ golden_loaded \in BOOLEAN
    /\ driver \in {"stream_data", "stream_loop"}
    /\ drv_pc = "start"

SpecRef == InitRef /\ [][Next]_vars

\* C12, as stated: with no golden standard loaded, a tick of
\* process_all_batches completes without raising (it returns its list of
\* results) and leaves the run loop alive.
C12_NoReferenceNonFatal ==
    [][(~golden_loaded /\ tick_count' = tick_count + 1) =>
          /\ drv_pc' # "crashed"
          /\ pending_results' = tick_results'
      ]_vars

(***************************************************************************)
(* Requests made by callers: the service's methods and the HTTP endpoints  *)
(***************************************************************************)
MaxCalls == 1

\* the record of the request being answered
Answer(op, b, status, body) ==
    [n |-> call.n + 1, op |-> op, batch |-> b, status |-> status, body |-> body]

\* get_next_data_point: if batch_num not in self.batch_data: self.initialize()
DataAfterLookup(b) ==
    IF b \notin DOMAIN batch_data
    THEN {InitializeData(d) : d \in RunDraws}
    ELSE {batch_data}

\* a variant that starts the profile again at its end, as MQTTPublisher does
GetNextDataPoint_Wrap(b) ==
    /\ call.n < MaxCalls
    /\ \E bd \in DataAfterLookup(b) :
         /\ batch_data' = bd
         /\ IF b \notin DOMAIN bd
            THEN /\ call' = Answer("get_next_data_point", b, "KeyError", <<>>)
                 /\ UNCHANGED current_index
            ELSE LET idx == current_index[b] % Len(bd[b])
                 IN  /\ call' = Answer("get_next_data_point", b, "ok",
                                       <<DataPoint(bd, b, idx)>>)
                     /\ current_index' = [current_index EXCEPT ![b] = idx + 1]
    /\ UNCHANGED <<smsVars, batch_history, is_running, tick_results,
                   tick_count, held, genVars, lockVars, mqttVars, tick_frame, mainVars>>

\* StreamingService.get_next_data_point(b): batch = self.batch_data[b] raises
\* KeyError for a key that initialize() does not create; None at the end of
\* the profile; otherwise the data point, and the cursor moves on
GetNextDataPoint(b) ==
    /\ call.n < MaxCalls
    /\ \E bd \in DataAfterLookup(b) :
         /\ batch_data' = bd
         /\ IF b \notin DOMAIN bd
            THEN /\ call' = Answer("get_next_data_point", b, "KeyError", <<>>)
                 /\ UNCHANGED current_index
            ELSE IF Exhausted(bd, current_index, b)
            THEN /\ call' = Answer("get_next_data_point", b, "None", <<>>)
                 /\ UNCHANGED current_index
            ELSE /\ call' = Answer("get_next_data_point", b, "ok",
                                   <<DataPoint(bd, b, current_index[b])>>)
                 /\ current_index' = [current_index EXCEPT ![b] = @ + 1]
    /\ UNCHANGED <<smsVars, batch_history, is_running, tick_results,
                   tick_count, held, genVars, lockVars, mqttVars, tick_frame, mainVars>>

\* FermentationDataGenerator.generate_batch_profile(b): ValueError outside 1-4
GenerateProfile(b) ==
    /\ call.n < MaxCalls
    /\ IF b \notin Batches
       THEN call' = Answer("generate_batch_profile", b, "ValueError", <<>>)
       ELSE \E d \in RunDraws :
              call' = Answer("generate_batch_profile", b, "ok",
                             <<GenerateBatchProfile(d, b)>>)
    /\ UNCHANGED <<smsVars, svcVars, held, genVars, lockVars, mqttVars, tick_frame, mainVars>>

\* GET /api/batches/{b}/history: 400 outside 1-4, 404 for an empty history
HttpBatchHistory(b) ==
    /\ call.n < MaxCalls
    /\ DriverSuspended
    /\ LET history == GetBatchHistory(batch_history, b)
       IN  call' = IF b < 1 \/ b > 4
                   THEN Answer("history", b, "400", <<>>)
                   ELSE IF history = <<>>
                   THEN Answer("history", b, "404", <<>>)
                   ELSE Answer("history", b, "200", history)
    /\ UNCHANGED <<smsVars, svcVars, held, genVars, lockVars, mqttVars, tick_frame, mainVars>>

\* the service, its generator and the history endpoint, with no run loop
NextRequests ==
    \/ Initialize
    \/ ProcessAllBatches
    \/ \E b \in BatchArgs : GetNextDataPoint(b)
    \/ \E b \in BatchArgs : GenerateProfile(b)
    \/ \E b \in BatchArgs : HttpBatchHistory(b)

\* the console provider: no alert is delivered in this specification
InitRequests == InitState /\ sms_client = FALSE

SpecRequests == InitRequests /\ [][NextRequests]_vars

\* a request is answered in this step
Answered == call'.n = call.n + 1

\* C13, as stated (for a service whose profiles have been generated): a
\* request for a batch id outside 1..4 is answered with an error and leaves
\* the profiles, cursors, histories and alert state as they were.
C13_InvalidBatchIsolated ==
    [][(Answered /\ call'.batch \notin Batches /\ DOMAIN batch_data = Batches) =>
          /\ call'.status \in {"KeyError", "ValueError", "400"}
          /\ UNCHANGED <<batch_data, current_index, batch_history, last_status>>
      ]_vars

(***************************************************************************)
(* The HTTP reads of the application                                       *)
(***************************************************************************)
\* GET /api/batches/{b}: 400 outside 1-4, 404 when latest_data has no entry
HttpBatchDetails(b) ==
    /\ call.n < MaxCalls
    /\ DriverSuspended
    /\ call' = IF b < 1 \/ b > 4
               THEN Answer("details", b, "400", <<>>)
               ELSE IF b \notin DOMAIN latest_data
               THEN Answer("details", b, "404", <<>>)
               ELSE Answer("details", b, "200", <<latest_data[b]>>)
    /\ UNCHANGED <<smsVars, svcVars, held, genVars, lockVars, mqttVars, tick_frame, mainVars>>

Formats == {"json", "csv", "xml"}

\* the CSV rendering of a history: the header line, then one line per record
CsvLines(history) ==
    <<"timestamp,ph,temperature,co2,ideal_ph,ideal_temperature,ideal_co2,quality_score,status">>
    \o [i \in 1..Len(history) |->
          [timestamp |-> history[i].data_point.timestamp,
           ph |-> history[i].data_point.ph,
           temperature |-> history[i].data_point.temperature,
           co2 |-> history[i].data_point.co2,
           quality_score |-> history[i].comparison.quality_score]]

HttpDownloadAnswer_EmptyFile(b, format, history) ==
    IF b < 1 \/ b > 4 THEN Answer("download", b, "400", <<>>)
    ELSE IF format \notin {"json", "csv"} THEN Answer("download", b, "400", <<>>)
    ELSE IF format = "json" THEN Answer("download", b, "200", history)
    ELSE Answer("download", b, "200", CsvLines(history))

\* GET /api/batches/{b}/download?format=: 400 outside 1-4 or for an unknown
\* format, 404 for an empty history, else the records or the CSV lines
HttpDownloadAnswer(b, format, history) ==
    IF b < 1 \/ b > 4 THEN Answer("download", b, "400", <<>>)
    ELSE IF format \notin {"json", "csv"} THEN Answer("download", b, "400", <<>>)
    ELSE IF history = <<>> THEN Answer("download", b, "404", <<>>)
    ELSE IF format = "json" THEN Answer("download", b, "200", history)
    ELSE Answer("download", b, "200", CsvLines(history))

HttpDownload(b, format) ==
    /\ call.n < MaxCalls
    /\ DriverSuspended
    /\ call' = HttpDownloadAnswer(b, format, GetBatchHistory(batch_history, b))
    /\ UNCHANGED <<smsVars, svcVars, held, genVars, lockVars, mqttVars, tick_frame, mainVars>>

\* the application driven by stream_data, with the console provider for alerts
InitHttp ==
    /\ InitObjects
    /\ initial_state = NoInbox
    /\ golden_loaded = TRUE
    /\ sms_client = FALSE
    /\ driver = "stream_data"
    /\ drv_pc = "start"

\* one subscriber keeps stream_data producing while the endpoints are read
HttpSubscribers == {CHOOSE c \in Clients : TRUE}

NextHttp ==
    \/ SD_Start \/ SD_Loop \/ SD_Publish \/ BC_Next \/ SD_Sleep
    \/ WriteCompletes
    \/ \E c \in HttpSubscribers : Connect(c)
    \/ \E c \in HttpSubscribers : Disconnect(c)
    \/ \E b \in BatchArgs : HttpBatchDetails(b)
    \/ \E b \in BatchArgs : HttpBatchHistory(b)
    \/ \E b \in BatchArgs, f \in Formats : HttpDownload(b, f)

SpecHttp == InitHttp /\ [][NextHttp]_vars

\* C14: a read (details, history, download) of a batch 1..4 that has produced
\* no data yet is answered with an error and no payload; the answer is 404
\* "not available" whenever the request itself is well formed.
C14_NoDataIsNotAvailable ==
    [][(/\ Answered
        /\ call'.op \in {"details", "history", "download"}
        /\ call'.batch \in Batches
        /\ batch_history[call'.batch] = <<>>) =>
          /\ call'.status \in {"400", "404"}
          /\ call'.body = <<>>
          /\ call'.op \in {"details", "history"} => call'.status = "404"
      ]_vars

\* a download was answered "not available" while nothing had been produced
C14_Witness ==
    /\ call.op = "download"
    /\ call.batch \in Batches
    /\ call.status = "404"
    /\ batch_history[call.batch] = <<>>
    /\ active_connections # {}

(***************************************************************************)
(* compare_data_point on its own: any data point                           *)
(***************************************************************************)
\* differences from the reference that the compared samples take, chosen
\* around the thresholds of get_status and the edges of the score bands
PhOff == {-601, -600, -301, -300, 0, 150, 151, 500}
TempOff == {0, 750, 2000, -3500}
Co2Off == {0, 1500, 3000}

\* a data point for batch b at cursor idx, off by the given differences
PointOff(b, idx, oph, otemp, oco2) ==
    [batch_number |-> b,
     timestamp |-> idx,
     ph |-> IdealAt(idx).ph + oph,
     temperature |-> IdealAt(idx).temperature + otemp,
     co2 |-> IdealAt(idx).co2 + oco2,
     sample_index |-> idx,
     total_samples |-> NumSamples]

\* one call of compare_data_point(b, dp)
CompareCall(b, dp) ==
    /\ call.n < MaxCalls
    /\ call' = Answer("compare_data_point", b, "ok",
                      <<CompareOrError(golden_loaded, b, dp)>>)
    /\ UNCHANGED <<smsVars, svcVars, held, genVars, lockVars, mqttVars, tick_frame, mainVars>>

NextCompare ==
    \E b \in {FirstBatch, LastBatch}, idx \in 0..GsLen,
       oph \in PhOff, otemp \in TempOff, oco2 \in Co2Off :
        CompareCall(b, PointOff(b, idx, oph, otemp, oco2))

SpecCompare == InitRequests /\ [][NextCompare]_vars

\* three times the quality score of an envelope, in thousandths, recomputed
\* from the deviations it carries
EnvelopeScore3(e) ==
    Max0(100000 - 100 * e.deviations.ph)
      + Max0(100000 - (100 * e.deviations.temperature) \div 5)
      + Max0(100000 - (100 * e.deviations.co2) \div 5)

\* C15: the overall status of an envelope of compare_data_point is the band
\* of its quality score: "perfect" at 95 or more, "acceptable" at 90 or more,
\* "concerning" at 80 or more, "failed" below; it is a function of the score
\* alone, whatever the per-parameter statuses are.
C15_OverallIsBandOfScore ==
    call.op = "compare_data_point" =>
        LET e == call.body[1]
            score3 == EnvelopeScore3(e)
        IN  /\ e.status.overall = "perfect" <=> score3 >= 3 * 95000
            /\ e.status.overall = "acceptable" <=>
                   (score3 >= 3 * 90000 /\ score3 < 3 * 95000)
            /\ e.status.overall = "concerning" <=>
                   (score3 >= 3 * 80000 /\ score3 < 3 * 90000)
            /\ e.status.overall = "failed" <=> score3 < 3 * 80000

\* an envelope whose ph status is "critical" while its score, 83.3, is banded
\* "concerning"
C15_Witness ==
    /\ call.op = "compare_data_point"
    /\ call.body[1].status.ph = "critical"
    /\ call.body[1].deviations = [ph |-> 500, temperature |-> 0, co2 |-> 0]
    /\ call.body[1].status.overall = "concerning"

(***************************************************************************)
(* A sample off by +0.8 in ph (under SpecHistory)                          *)
(***************************************************************************)
\* the result r is that of a sample 0.8 above the reference in ph and equal to
\* it in temperature and co2
PhOffBy800(r) ==
    LET ideal == IdealAt(r.data_point.sample_index)
    IN  /\ r.data_point.ph - ideal.ph = 800
        /\ r.data_point.temperature = ideal.temperature
        /\ r.data_point.co2 = ideal.co2

\* the send_alert threads that this call of process_all_batches starts for b
AlertsStarted(b) == {t \in alert_threads' \ alert_threads : t.batch = b}

\* batch b has a status on record, and it is not "critical"
HadNonCritical(b) == b \in DOMAIN last_status /\ last_status[b] # "critical"

\* C16, as stated: for a tick whose sample is off by +0.8 in ph and by nothing
\* else, in a batch that had a non-critical status before, the ph status is
\* "critical", the overall status is "critical" and exactly one alert
\* transition fires at that tick.
C16_Original ==
    [][tick_count' = tick_count + 1 =>
         \A i \in 1..Len(tick_results') :
            LET r == tick_results'[i]
            IN  (PhOffBy800(r) /\ HadNonCritical(r.batch_number)) =>
                   /\ r.comparison.status.ph = "critical"
                   /\ r.comparison.status.overall = "critical"
                   /\ Cardinality(AlertsStarted(r.batch_number)) = 1
      ]_vars

\* C16, amended: for such a tick the ph status is "critical", the overall
\* status is "failed" (the band of the score 73.3), and exactly one alert
\* transition fires at that tick when the status on record differs from
\* "failed", none when it is "failed" already.
C16_PhCriticalOverallFailed ==
    [][tick_count' = tick_count + 1 =>
         \A i \in 1..Len(tick_results') :
            LET r == tick_results'[i]
                b == r.batch_number
            IN  (PhOffBy800(r) /\ HadNonCritical(b)) =>
                   /\ r.comparison.status.ph = "critical"
                   /\ r.comparison.status.overall = "failed"
                   /\ r.comparison.quality_score = 733
                   /\ Cardinality(AlertsStarted(b)) =
                         IF last_status[b] = "failed" THEN 0 ELSE 1
                   /\ \A t \in AlertsStarted(b) :
                         /\ t.current = "failed"
                         /\ t.previous = last_status[b]
                         /\ t.index = r.comparison.sample_index
      ]_vars

\* a tick compared a sample off by +0.8 in ph of a batch that was "perfect"
\* before, and one alert thread was started for it
C16_Witness ==
    \E i \in 1..Len(tick_results) :
        LET r == tick_results[i]
        IN  /\ PhOffBy800(r)
            /\ i \in 1..Len(sms_calls)
            /\ sms_calls[i].batch = r.batch_number
            /\ sms_calls[i].before = "perfect"
            /\ sms_calls[i].ret = "perfect"
            /\ \E t \in alert_threads :
                  /\ t.batch = r.batch_number
                  /\ t.index = r.comparison.sample_index
                  /\ t.current = "failed"
                  /\ t.previous = "perfect"

(***************************************************************************)
(* DataComparator: the numeric comparison of two aligned series            *)
(***************************************************************************)
\* longest series compared, and the values a series takes
MaxLen == 3
Levels == {0, 1, 2}

\* floats are kept in hundredths, with the two values that are not numbers
Scale == 100
Num(v) == [k |-> "num", v |-> v]
NaN == [k |-> "nan", v |-> 0]
Inf == [k |-> "inf", v |-> 0]
IsFinite(x) == x.k = "num"

RECURSIVE SqrtBetween(_, _, _)
\* the largest r in lo..hi with r * r <= n
SqrtBetween(n, lo, hi) ==
    IF lo >= hi THEN lo
    ELSE IF ((lo + hi + 1) \div 2) * ((lo + hi + 1) \div 2) <= n
    THEN SqrtBetween(n, (lo + hi + 1) \div 2, hi)
    ELSE SqrtBetween(n, lo, ((lo + hi + 1) \div 2) - 1)

\* np.sqrt(x) for a whole number x, in hundredths
Sqrt100(x) == SqrtBetween(x * Scale * Scale, 0, Scale * (x + 1))

RECURSIVE SumSeq(_)
SumSeq(s) == IF s = <<>> THEN 0 ELSE s[1] + SumSeq(Tail(s))

\* element-wise helpers on two series of the same length
Diffs(x, y) == [i \in 1..Len(x) |-> x[i] - y[i]]
Products(x, y) == [i \in 1..Len(x) |-> x[i] * y[i]]
AbsOf(x) == [i \in 1..Len(x) |-> Abs(x[i])]
SetMax(S) == CHOOSE m \in S : \A x \in S : x <= m
SetMin(S) == CHOOSE m \in S : \A x \in S : m <= x
Range(x) == {x[i] : i \in 1..Len(x)}

\* a / b for two numpy floats: nan for 0/0 and inf for x/0, with a warning
\* and no exception
FloatDiv(a, b) ==
    IF b = 0 THEN (IF a = 0 THEN NaN ELSE Inf) ELSE Num(a \div b)

\* the mean of three floats: not a number as soon as one of them is not
Mean3(x, y, z) ==
    IF x.k = "nan" \/ y.k = "nan" \/ z.k = "nan" THEN NaN
    ELSE IF x.k = "inf" \/ y.k = "inf" \/ z.k = "inf" THEN Inf
    ELSE Num((x.v + y.v + z.v) \div 3)

RECURSIVE DtwCost(_, _, _, _)
\* dtw.distance squared: the cheapest warping path that aligns the first i
\* values of x with the first j values of y, the cost of a pair being its
\* squared difference (-1: no path)
DtwCost(x, y, i, j) ==
    IF i = 0 /\ j = 0 THEN 0
    ELSE IF i = 0 \/ j = 0 THEN -1
    ELSE (x[i] - y[j]) * (x[i] - y[j])
           + SetMin({c \in {DtwCost(x, y, i - 1, j), DtwCost(x, y, i, j - 1),
                            DtwCost(x, y, i - 1, j - 1)} : c >= 0})

\* the similarity scores of one parameter (_calculate_similarity, the body of
\* the loop), for two non-empty series of the same length
ParamSimilarity(gen, gold) ==
    LET euclidean_dist == Sqrt100(SumSeq(Products(Diffs(gen, gold), Diffs(gen, gold))))
        max_possible_dist ==
            Sqrt100(Len(gen)) * (SetMax(Range(gen)) - SetMin(Range(gen)))
        euclidean_similarity ==
            IF max_possible_dist > 0
            THEN Num(Scale - (euclidean_dist * Scale) \div max_possible_dist)
            ELSE Num(Scale)
        dtw_distance == Sqrt100(DtwCost(gen, gold, Len(gen), Len(gold)))
        dtw_similarity == Num((Scale * Scale) \div (Scale + dtw_distance))
        cosine_sim ==
            FloatDiv(SumSeq(Products(gen, gold)) * Scale * Scale * Scale,
                     Sqrt100(SumSeq(Products(gen, gen)))
                       * Sqrt100(SumSeq(Products(gold, gold))))
    IN  [euclidean_similarity |-> euclidean_similarity,
         dtw_similarity |-> dtw_similarity,
         cosine_similarity |-> cosine_sim,
         average_similarity |-> Mean3(euclidean_similarity, dtw_similarity, cosine_sim)]

\* a float times 100
Times100(x) == IF IsFinite(x) THEN Num(100 * x.v) ELSE x

Params == {"ph", "temperature", "co2"}

\* _calculate_similarity(generated, golden), and the quality_score that
\* _generate_assessment publishes from it; gen_values.max() of an empty array
\* raises ValueError
CalculateSimilarity(generated, golden) ==
    IF \E p \in Params : Len(generated[p]) = 0
    THEN [status |-> "ValueError"]
    ELSE LET similarity == [p \in Params |-> ParamSimilarity(generated[p], golden[p])]
             overall == Mean3(similarity["ph"].average_similarity,
                              similarity["temperature"].average_similarity,
                              similarity["co2"].average_similarity)
         IN  [status |-> "ok", similarity |-> similarity, overall |-> overall,
              quality_score |-> Times100(overall)]

\* stats.pearsonr(x, y): ValueError for fewer than two values; (nan, nan),
\* with a warning, when x or y is constant; otherwise the correlation of the
\* centred series, clipped to [-1, 1], and its p-value, of which only the
\* kind is kept
Pearsonr(x, y) ==
    IF Len(x) < 2 THEN [status |-> "ValueError"]
    ELSE IF Cardinality(Range(x)) = 1 \/ Cardinality(Range(y)) = 1
    THEN [status |-> "ok", correlation |-> NaN, p_value |-> [k |-> "nan"]]
    ELSE LET n  == Len(x)
             xm == [i \in 1..n |-> n * x[i] - SumSeq(x)]
             ym == [i \in 1..n |-> n * y[i] - SumSeq(y)]
             r  == (SumSeq(Products(xm, ym)) * Scale * Scale * Scale)
                      \div (Sqrt100(SumSeq(Products(xm, xm)))
                              * Sqrt100(SumSeq(Products(ym, ym))))
         IN  [status |-> "ok",
              correlation |-> Num(IF r > Scale THEN Scale
                                  ELSE IF r < -Scale THEN -Scale ELSE r),
              p_value |-> [k |-> "num"]]

\* the metrics of one parameter (calculate_deviations, the body of the loop);
\* np.mean of an empty array is nan, np.max of an empty array raises
ParamDeviations(gen, gold) ==
    IF Len(gen) = 0 THEN [status |-> "ValueError"]
    ELSE IF Pearsonr(gen, gold).status # "ok" THEN [status |-> "ValueError"]
    ELSE LET d == Diffs(gen, gold)
         IN  [status |-> "ok",
              mae |-> Num((SumSeq(AbsOf(d)) * Scale) \div Len(d)),
              rmse |-> Num(SqrtBetween((SumSeq(Products(d, d)) * Scale * Scale) \div Len(d),
                                       0, Scale * (SumSeq(Products(d, d)) + 1))),
              max_deviation |-> Num(SetMax(Range(AbsOf(d))) * Scale),
              correlation |-> Pearsonr(gen, gold).correlation,
              correlation_p_value |-> Pearsonr(gen, gold).p_value,
              point_deviations |-> d]

\* calculate_deviations(generated, golden)
CalculateDeviations(generated, golden) ==
    IF \E p \in Params : ParamDeviations(generated[p], golden[p]).status # "ok"
    THEN [status |-> "ValueError"]
    ELSE [status |-> "ok",
          deviations |-> [p \in Params |-> ParamDeviations(generated[p], golden[p])]]

\* a series of n values that rises by one per sample
Rising(n) == [i \in 1..n |-> i]

\* the aligned datasets compared: every pair of series of one length for co2,
\* next to a ph and a temperature that equal their reference
Datasets ==
    UNION {{[generated |-> [ph |-> Rising(n), temperature |-> Rising(n), co2 |-> gen],
             golden |-> [ph |-> Rising(n), temperature |-> Rising(n), co2 |-> gold]] :
               gen \in [1..n -> Levels], gold \in [1..n -> Levels]} : n \in 0..MaxLen}

\* one call of _calculate_similarity and of _generate_assessment on its result
SimilarityCall(ds) ==
    /\ call.n < MaxCalls
    /\ \E r \in {CalculateSimilarity(ds.generated, ds.golden)} :
          call' = Answer("_calculate_similarity", 0, r.status, <<ds, r>>)
    /\ UNCHANGED <<smsVars, svcVars, held, genVars, lockVars, mqttVars, tick_frame, mainVars>>

\* one call of calculate_deviations
DeviationsCall(ds) ==
    /\ call.n < MaxCalls
    /\ \E r \in {CalculateDeviations(ds.generated, ds.golden)} :
          call' = Answer("calculate_deviations", 0, r.status, <<ds, r>>)
    /\ UNCHANGED <<smsVars, svcVars, held, genVars, lockVars, mqttVars, tick_frame, mainVars>>

NextComparator ==
    \/ \E ds \in Datasets : SimilarityCall(ds)
    \/ \E ds \in Datasets : DeviationsCall(ds)

SpecComparator == InitRequests /\ [][NextComparator]_vars

\* C18, as stated: _calculate_similarity never raises, and the quality score
\* published from it (100 times the overall similarity) is a finite number,
\* degenerate inputs (constant, all-zero, empty series) included.
C18_QualityScoreFinite ==
    call.op = "_calculate_similarity" =>
        /\ call.status = "ok"
        /\ IsFinite(call.body[2].quality_score)
        /\ \A p \in Params : \A f \in DOMAIN call.body[2].similarity[p] :
              IsFinite(call.body[2].similarity[p][f])

\* C19, as stated: for every pair of series of equal length
\* calculate_deviations returns mae >= 0, rmse >= 0 and a correlation in
\* [-1, 1]; when a series is constant it returns the sentinel, correlation 0
\* with a p-value that is a number, and raises no numeric error.
C19_DeviationsDefined ==
    call.op = "calculate_deviations" =>
        /\ call.status = "ok"
        /\ \A p \in Params :
              LET d == call.body[2].deviations[p]
                  constant == \/ Cardinality(Range(call.body[1].generated[p])) = 1
                              \/ Cardinality(Range(call.body[1].golden[p])) = 1
              IN  /\ IsFinite(d.mae) /\ d.mae.v >= 0
                  /\ IsFinite(d.rmse) /\ d.rmse.v >= 0
                  /\ IsFinite(d.correlation)
                  /\ d.correlation.v \in (-Scale)..Scale
                  /\ d.correlation_p_value.k = "num"
                  /\ constant => d.correlation = Num(0)

(***************************************************************************)
(* A batch that follows the reference (under SpecAlerts)                   *)
(***************************************************************************)
\* every sample of batch b equals the reference sample of the same index
EqualsReference(b) ==
    /\ b \in DOMAIN batch_data
    /\ Len(batch_data[b]) <= Len(GoldenStandard)
    /\ \A i \in 1..Len(batch_data[b]) :
          /\ batch_data[b][i].ph = GoldenStandard[i].ph
          /\ batch_data[b][i].temperature = GoldenStandard[i].temperature
          /\ batch_data[b][i].co2 = GoldenStandard[i].co2

\* C17: for a batch whose every sample equals the reference sample of the
\* same index, every tick publishes quality score 100 and the overall status
\* "perfect", and no alert is reported for the batch at any point of the run,
\* its first observation included: no call of check_alert_condition for it
\* returns a previous status and no send_alert thread exists for it.
C17_ReferenceBatchNeverAlerts ==
    \A b \in Batches :
        EqualsReference(b) =>
            /\ \A k \in 1..Len(batch_history[b]) :
                  /\ batch_history[b][k].comparison.quality_score = 1000
                  /\ batch_history[b][k].comparison.status.overall = "perfect"
            /\ \A i \in 1..Len(sms_calls) :
                  sms_calls[i].batch = b => sms_calls[i].ret = None
            /\ \A t \in alert_threads : t.batch # b
            /\ b \in DOMAIN last_status => last_status[b] = "perfect"

\* the whole profile of a batch equal to the reference has been published,
\* in a run in which another batch was alerted on its first observation
C17_Witness ==
    \E b \in Batches :
        /\ EqualsReference(b)
        /\ Len(batch_history[b]) = NumSamples
        /\ \E i \in 1..Len(sms_calls) : sms_calls[i].batch = b
        /\ \E t \in alert_threads : t.batch # b /\ t.previous = Unknown

(***************************************************************************)
(* The recorded status (under SpecSms)                                     *)
(***************************************************************************)
\* C20: after every call check_alert_condition(batch, status), whatever it
\* returns, the recorded last status of that batch is status, and the
\* recorded status of every other batch is what it was.
C20_StatusRecorded ==
    [][\A i \in 1..Len(sms_calls') :
          LET b == sms_calls'[i].batch
          IN  /\ b \in DOMAIN last_status'
              /\ last_status'[b] = sms_calls'[i].status
              /\ DOMAIN last_status' = DOMAIN last_status \cup {b}
              /\ \A x \in DOMAIN last_status \ {b} : last_status'[x] = last_status[x]
      ]_vars

\* a call with the status already on record returned nothing, next to a
\* batch recorded with another status
C20_Witness ==
    \E i \in 1..Len(sms_calls) :
        /\ sms_calls[i].seen
        /\ sms_calls[i].before = sms_calls[i].status
        /\ sms_calls[i].ret = None
        /\ last_status[sms_calls[i].batch] = sms_calls[i].status
        /\ \E x \in DOMAIN last_status : last_status[x] # sms_calls[i].status

(***************************************************************************)
(* FermentationDataGenerator: the seed and numpy's global generator        *)
(***************************************************************************)
\* instances of FermentationDataGenerator constructed in a run
NumGenerators == 2
Instances == 1..NumGenerators

\* the seed arguments: two integers, and NoSeed for seed=None
Seeds == {42, 43}
NoSeed == -1
SeedArgs == Seeds \cup {NoSeed}

\* the k-th value of the stream that np.random.seed(seed) starts
Stream(seed, k) == (7 * seed + 3 * k + k * k) % 11

\* the value of the k-th draw made from the state st (k = 0 for the next one)
Drawn(st, k) == Stream(st.seed, st.pos + k)

\* np.random.seed(seed)
SeedState(seed) == [seed |-> seed, pos |-> 0]

\* the draws one generate_batch call consumes: 4, 4 and 3 for the three
\* trajectories, one per sample for the noise of each parameter, and three
\* for an anomaly (its type, its time, its size)
DrawsUsed(n, add_anomalies) == 11 + 3 * n + (IF add_anomalies THEN 3 ELSE 0)

\* generate_batch with num_samples = n on the generator state st
GenerateBatch(st, n, add_anomalies) ==
    LET ph_base   == Drawn(st, 0) + Drawn(st, 1) + Drawn(st, 2) + Drawn(st, 3)
        temp_base == Drawn(st, 4) + Drawn(st, 5) + Drawn(st, 6) + Drawn(st, 7)
        co2_base  == Drawn(st, 8) + Drawn(st, 9) + Drawn(st, 10)
        kind      == Drawn(st, 11 + 3 * n) % 3
        spike_idx == 1 + (Drawn(st, 12 + 3 * n) % n)
        size      == 500 + 10 * Drawn(st, 13 + 3 * n)
        spike(k, i) == IF add_anomalies /\ kind = k /\ i >= spike_idx THEN size ELSE 0
    IN  [ph |-> [i \in 1..n |->
                    Ideal(i).ph + 10 * ph_base + Drawn(st, 10 + i) + spike(0, i)],
         temperature |-> [i \in 1..n |->
                    Ideal(i).temperature + 10 * temp_base + Drawn(st, 10 + n + i)
                      + spike(1, i)],
         co2 |-> [i \in 1..n |->
                    Ideal(i).co2 + 10 * co2_base + Drawn(st, 10 + 2 * n + i)
                      + spike(2, i)],
         num_samples |-> n,
         has_anomalies |-> add_anomalies]

\* FermentationDataGenerator(seed): seeds the global generator when a seed is
\* given; the instance keeps no generator of its own
Construct(g, seed) ==
    /\ g \notin DOMAIN generators
    /\ np_random' = IF seed # NoSeed THEN SeedState(seed) ELSE np_random
    /\ generators' = [x \in DOMAIN generators \cup {g} |->
                        IF x = g THEN [seed |-> seed, args |-> <<>>, batch |-> <<>>]
                        ELSE generators[x]]
    /\ UNCHANGED <<smsVars, svcVars, held, lockVars, mqttVars, tick_frame, call, mainVars>>

\* g.generate_batch(...), the first call on the instance
GenerateBatchCall(g, n, add_anomalies) ==
    /\ g \in DOMAIN generators
    /\ generators[g].batch = <<>>
    /\ generators' = [generators EXCEPT
                        ![g].args = <<n, add_anomalies>>,
                        ![g].batch = <<GenerateBatch(np_random, n, add_anomalies)>>]
    /\ np_random' = [np_random EXCEPT !.pos = @ + DrawsUsed(n, add_anomalies)]
    /\ UNCHANGED <<smsVars, svcVars, held, lockVars, mqttVars, tick_frame, call, mainVars>>

NextGenerators ==
    \/ \E g \in Instances, seed \in SeedArgs : Construct(g, seed)
    \/ \E g \in Instances, n \in 1..NumSamples, a \in BOOLEAN :
          GenerateBatchCall(g, n, a)

SpecGenerators == InitRequests /\ [][NextGenerators]_vars

\* C21, as stated: two instances created with the same seed produce
\* identical batches for identical arguments, whatever the order in which
\* they are constructed and asked to generate.
C21_SameSeedSameBatch ==
    \A g \in DOMAIN generators, h \in DOMAIN generators :
        (/\ generators[g].seed \in Seeds
         /\ generators[g].seed = generators[h].seed
         /\ generators[g].batch # <<>>
         /\ generators[h].batch # <<>>
         /\ generators[g].args = generators[h].args) =>
            generators[g].batch = generators[h].batch

(***************************************************************************)
(* DataComparator._align_datasets                                          *)
(***************************************************************************)
SeriesNames == {"timestamps", "ph", "temperature", "co2"}

\* s[:n]
Prefix(s, n) == SubSeq(s, 1, IF n < Len(s) THEN n ELSE Len(s))

Min2(a, b) == IF a < b THEN a ELSE b

\* a variant that cuts the generated dataset only
AlignDatasets_GeneratedOnly(generated, golden) ==
    IF Len(generated.timestamps) = Len(golden.timestamps)
    THEN <<generated, golden>>
    ELSE LET target_len == Min2(Len(generated.timestamps), Len(golden.timestamps))
         IN  <<[k \in SeriesNames |-> Prefix(generated[k], target_len)], golden>>

\* _align_datasets(generated, golden): the pair as it is when the timestamps
\* have one length, else the four series of each cut to the shorter length
AlignDatasets(generated, golden) ==
    IF Len(generated.timestamps) = Len(golden.timestamps)
    THEN <<generated, golden>>
    ELSE LET target_len == Min2(Len(generated.timestamps), Len(golden.timestamps))
         IN  <<[k \in SeriesNames |-> Prefix(generated[k], target_len)],
               [k \in SeriesNames |-> Prefix(golden[k], target_len)]>>

\* the generated datasets aligned: every ph series of a length up to MaxLen,
\* with timestamps 0, 1, ..
GeneratedSets ==
    UNION {{[timestamps |-> [i \in 1..n |-> i - 1], ph |-> ph,
             temperature |-> Rising(n), co2 |-> [i \in 1..n |-> n - i]] :
               ph \in [1..n -> Levels]} : n \in 0..MaxLen}

\* the reference datasets: one of each length
GoldenSets ==
    {[timestamps |-> [i \in 1..n |-> i - 1], ph |-> [i \in 1..n |-> 2 * i],
      temperature |-> Rising(n), co2 |-> Rising(n)] : n \in 0..MaxLen}

\* one call of _align_datasets
AlignCall(generated, golden) ==
    /\ call.n < MaxCalls
    /\ call' = Answer("_align_datasets", 0, "ok",
                      <<generated, golden, AlignDatasets(generated, golden)>>)
    /\ UNCHANGED <<smsVars, svcVars, held, genVars, lockVars, mqttVars, tick_frame, mainVars>>

NextAlign == \E generated \in GeneratedSets, golden \in GoldenSets :
                AlignCall(generated, golden)

SpecAlign == InitRequests /\ [][NextAlign]_vars

AfterBatch(frame, b) ==
    [frame EXCEPT !.stage = IF b = LastBatch THEN "return" ELSE "fetch",
                  !.batch = b + 1,
                  !.data_point = <<>>,
                  !.comparison = <<>>]

\* results = []; for batch_num in range(1, 5):
PabEnter ==
    /\ tick_frame.stage = "idle"
    /\ tick_count < MaxTicks
    /\ tick_frame' = [NoFrame EXCEPT !.stage = "fetch", !.batch = FirstBatch]
    /\ sms_calls' = <<>>
    /\ UNCHANGED <<last_status, sms_client, golden_loaded, alert_threads,
                   svcVars, held, genVars, lockVars, mqttVars, call, mainVars>>

\* data_point = self.get_next_data_point(batch_num); if data_point:
PabFetch ==
    /\ tick_frame.stage = "fetch"
    /\ \E bd \in LazyData :
         LET b == tick_frame.batch
         IN  /\ batch_data' = bd
             /\ IF Exhausted(bd, current_index, b)
                THEN /\ tick_frame' = AfterBatch(tick_frame, b)
                     /\ UNCHANGED current_index
                ELSE /\ tick_frame' = [tick_frame EXCEPT
                                          !.stage = "compare",
                                          !.data_point = <<DataPoint(bd, b, current_index[b])>>]
                     /\ current_index' = [current_index EXCEPT ![b] = @ + 1]
    /\ UNCHANGED <<smsVars, batch_history, is_running, tick_results, tick_count,
                   held, genVars, lockVars, mqttVars, call, mainVars>>

\* comparison = self.compare_data_point(batch_num, data_point); result = {...}
PabCompare ==
    /\ tick_frame.stage = "compare"
    /\ tick_frame' = [tick_frame EXCEPT
                        !.stage = "alert",
                        !.comparison = <<CompareDataPoint(tick_frame.batch,
                                                          tick_frame.data_point[1])>>]
    /\ UNCHANGED <<smsVars, svcVars, held, genVars, lockVars, mqttVars, call, mainVars>>

\* the result dict built from the frame
FrameResult(frame) ==
    [batch_number |-> frame.batch, data_point |-> frame.data_point[1],
     comparison |-> frame.comparison[1]]

\* previous_status = check_alert_condition(...); if previous_status is not
\* None: threading.Thread(target=send_alert, ...).start()
PabAlert ==
    /\ tick_frame.stage = "alert"
    /\ LET b == tick_frame.batch
           cur == tick_frame.comparison[1].status.overall
           prev == CheckAlertRet(last_status, b, cur)
       IN  /\ last_status' = CheckAlertState(last_status, b, cur)
           /\ sms_calls' = Append(sms_calls, CallRecord(last_status, b, cur))
           /\ alert_threads' =
                 IF prev # None
                 THEN StartAlertThread(alert_threads, b,
                                       tick_frame.comparison[1].sample_index, cur, prev)
                 ELSE alert_threads
    /\ tick_frame' = [tick_frame EXCEPT !.stage = "collect"]
    /\ UNCHANGED <<sms_client, golden_loaded, svcVars, held, genVars, lockVars, mqttVars, call, mainVars>>

\* results.append(result)
PabCollect ==
    /\ tick_frame.stage = "collect"
    /\ tick_frame' = [tick_frame EXCEPT
                        !.stage = "log",
                        !.results = Append(@, FrameResult(tick_frame))]
    /\ UNCHANGED <<smsVars, svcVars, held, genVars, lockVars, mqttVars, call, mainVars>>

\* self.batch_history[batch_num].append(result), and on to the next batch
PabLog ==
    /\ tick_frame.stage = "log"
    /\ batch_history' = [batch_history EXCEPT
                            ![tick_frame.batch] = AppendHistory(@, FrameResult(tick_frame))]
    /\ tick_frame' = AfterBatch(tick_frame, tick_frame.batch)
    /\ UNCHANGED <<smsVars, batch_data, current_index, is_running, tick_results,
                   tick_count, held, genVars, lockVars, mqttVars, call, mainVars>>

\* return results
PabReturn ==
    /\ tick_frame.stage = "return"
    /\ tick_results' = tick_frame.results
    /\ tick_count' = tick_count + 1
    /\ tick_frame' = NoFrame
    /\ UNCHANGED <<smsVars, batch_data, current_index, batch_history, is_running,
                   held, genVars, lockVars, mqttVars, call, mainVars>>

NextSteps ==
    \/ PabEnter \/ PabFetch \/ PabCompare \/ PabAlert \/ PabCollect \/ PabLog
    \/ PabReturn
    \/ \E t \in alert_threads, o \in Outcomes : SendAlertReturns(t, o)

SpecSteps == InitState /\ [][NextSteps]_vars

\* the alert check of the envelope in the frame is made in this step
AlertChecked == tick_frame.stage = "alert" /\ tick_frame'.stage = "collect"

\* the envelope in the frame is in the history of its batch
Logged(frame) ==
    \E k \in 1..Len(batch_history[frame.batch]) :
        batch_history[frame.batch][k] = FrameResult(frame)

\* C23, as stated: within a tick the work for a batch is ordered fetch,
\* compare, append to the history, alert check and dispatch, include in the
\* outgoing list: the envelope is in the history when its alert check runs,
\* and is not yet in the outgoing list when it is appended to the history.
C23_HistoryBeforeAlert ==
    [][/\ AlertChecked => Logged(tick_frame)
       /\ (tick_frame.stage = "log" /\ tick_frame'.stage # "log") =>
             \A k \in 1..Len(tick_frame.results) :
                tick_frame.results[k] # FrameResult(tick_frame)
      ]_vars

(***************************************************************************)
(* The tick as a whole before its publication (under Spec)                 *)
(***************************************************************************)
\* stream_data hands a result to the broadcaster in this step
HandedOver ==
    /\ driver = "stream_data"
    /\ drv_pc = "publish"
    /\ drv_pc' = "bcast_next"

\* the results r[1..] are in the order of their batch numbers
InBatchOrder(r) ==
    \A i \in 1..Len(r), j \in 1..Len(r) :
        i < j => r[i].batch_number < r[j].batch_number

\* C24: when a result of a tick is handed to the broadcaster, every batch has
\* been processed for that tick: each batch is in the tick's results or has
\* no sample left, its history holds one envelope per sample taken, the last
\* of them being its result of the tick, and its alert state is that of the
\* result; the results are handed over in the order batch 1, 2, 3, 4.
C24_WholeTickThenInOrder ==
    [][HandedOver =>
         /\ \A b \in Batches :
               /\ Len(batch_history[b]) = current_index[b]
               /\ \/ \E i \in 1..Len(tick_results) : tick_results[i].batch_number = b
                  \/ Exhausted(batch_data, current_index, b)
         /\ \A i \in 1..Len(tick_results) :
               LET b == tick_results[i].batch_number
               IN  /\ Last(batch_history[b]) = tick_results[i]
                   /\ last_status[b] = tick_results[i].comparison.status.overall
         /\ InBatchOrder(tick_results)
         /\ \E k \in 1..Len(tick_results) :
               /\ pending_results = SubSeq(tick_results, k, Len(tick_results))
               /\ tick_results[k].batch_number \in DOMAIN latest_data'
               /\ latest_data'[tick_results[k].batch_number] = tick_results[k]
               /\ \A i \in 1..Len(tick_results) :
                     i > k => \/ tick_results[i].batch_number \notin DOMAIN latest_data'
                              \/ latest_data'[tick_results[i].batch_number] # tick_results[i]
      ]_vars

\* the second tick's results are being published: two of the four are out
C24_Witness ==
    /\ driver = "stream_data"
    /\ drv_pc = "bcast_next"
    /\ tick_count = 2
    /\ Len(tick_results) = 4
    /\ Len(pending_results) = 2
    /\ latest_data[3] = tick_results[3]

(***************************************************************************)
(* One iteration of the run loop (under Spec)                              *)
(***************************************************************************)
\* the body of the while loop is entered in this step
IterationBegins == drv_pc = "loop" /\ drv_pc' \notin {"loop", "stopped"}

\* batch b has a sample left
HasSample(b) == b \in DOMAIN batch_data /\ current_index[b] < Len(batch_data[b])

\* exactly one tick is made in this step: every batch with a sample left
\* moves on by one sample, the others stay
OneTick ==
    /\ tick_count' = tick_count + 1
    /\ \A b \in Batches :
          current_index'[b] = current_index[b] + (IF HasSample(b) THEN 1 ELSE 0)

\* the sleep for the interval follows the iteration's work, once: the loop
\* comes back to its head from the sleep only, the sleep is left for the head
\* of the loop only, and the sleep is never entered from a broadcast in
\* progress
OneSleep ==
    /\ (drv_pc' = "loop" /\ drv_pc # "loop") => drv_pc \in {"start", "sleep"}
    /\ (drv_pc = "sleep" /\ drv_pc' # "sleep") => drv_pc' = "loop"
    /\ (drv_pc' = "sleep" /\ drv_pc # "sleep") =>
          \/ drv_pc = "loop"
          \/ drv_pc = "publish" /\ pending_results = <<>>

HandedOut(b) ==
    (IF Answered /\ call'.op = "get_next_data_point" /\ call'.status = "ok"
        /\ call'.batch = b
     THEN {call'.body[1]} ELSE {})
    \cup
    (IF tick_count' = tick_count + 1
     THEN {tick_results'[i].data_point : i \in
             {j \in 1..Len(tick_results') : tick_results'[j].batch_number = b}}
     ELSE {})

\* the sample dp is the profile's sample of index i
IsProfileSample(bd, b, i, dp) ==
    /\ i + 1 \in DOMAIN bd[b]
    /\ dp.sample_index = i
    /\ dp.batch_number = b
    /\ dp.timestamp = bd[b][i + 1].timestamp
    /\ dp.ph = bd[b][i + 1].ph
    /\ dp.temperature = bd[b][i + 1].temperature
    /\ dp.co2 = bd[b][i + 1].co2

\* C26: the cursor of each batch only moves forward: it never decreases, it
\* grows by exactly one for each sample handed out by get_next_data_point
\* (and by nothing else), it stays within 0..len(profile), and the sample
\* handed out at cursor value i is the profile's sample of index i.
C26_CursorForwardOnly ==
    [][\A b \in Batches :
          /\ current_index'[b] >= current_index[b]
          /\ current_index'[b] = current_index[b] + Cardinality(HandedOut(b))
          /\ current_index[b] >= 0
          /\ DOMAIN batch_data' # {} => current_index'[b] <= Len(batch_data'[b])
          /\ \A dp \in HandedOut(b) :
                IsProfileSample(batch_data', b, current_index[b], dp)
      ]_vars

\* a direct call has handed out a sample that is not the first of its profile
C26_Witness ==
    /\ call.n = 1
    /\ call.op = "get_next_data_point"
    /\ call.status = "ok"
    /\ call.body[1].sample_index >= 1
    /\ current_index[call.batch] = call.body[1].sample_index + 1

(***************************************************************************)
(* The end of a profile (under SpecRequests)                               *)
(***************************************************************************)
\* get_next_data_point returns None for batch b: the profiles exist and the
\* cursor is at the end of the profile of b
AtEnd(b) == DOMAIN batch_data # {} /\ Exhausted(batch_data, current_index, b)

\* C27: exhaustion is terminal and is not an error: a batch for which
\* get_next_data_point returns no sample stays so; every call for it, direct
\* or made by process_all_batches, returns no sample and does not raise, and
\* its cursor, its history and its alert state never change again.
C27_ExhaustionTerminal ==
    [][\A b \in Batches :
          AtEnd(b) =>
            /\ DOMAIN batch_data' # {}
            /\ Exhausted(batch_data', current_index', b)
            /\ current_index'[b] = current_index[b]
            /\ batch_history'[b] = batch_history[b]
            /\ last_status'[b] = last_status[b]
            /\ (Answered /\ call'.op = "get_next_data_point" /\ call'.batch = b)
                  => call'.status = "None" /\ call'.body = <<>>
            /\ tick_count' = tick_count + 1 =>
                  \A i \in 1..Len(tick_results') : tick_results'[i].batch_number # b
      ]_vars

\* a direct call for a batch returned no sample, and process_all_batches has
\* called for every batch twice after all of them had ended
C27_Witness ==
    /\ call.n = 1
    /\ call.op = "get_next_data_point"
    /\ call.batch \in Batches
    /\ call.status = "None"
    /\ tick_count = NumSamples + 2
    /\ tick_results = <<>>
    /\ \A b \in Batches : Len(batch_history[b]) = NumSamples

(***************************************************************************)
(* Shutdown: stop(), the cancellation of the background task, and the      *)
(* threads of send_alert (under SpecShutdown)                              *)
(***************************************************************************)
\* shutdown_event: streaming_task.cancel(). The handler runs on the event
\* loop, so the task is at one of its awaits (or was not started, or has
\* ended). CancelledError is raised at that await: at the sleep it ends the
\* task; at connection.send_json it is caught by the bare `except:` of
\* broadcast, which puts the connection among the disconnected and goes on
ShutdownEvent ==
    /\ driver = "stream_data"
    /\ call = NoCall
    /\ DriverSuspended
    /\ call' = Answer("shutdown_event", 0, "cancel", <<>>)
    /\ IF drv_pc \in {"start", "sleep"}
       THEN /\ drv_pc' = "cancelled"
            /\ UNCHANGED bcast
       ELSE IF drv_pc = "await_send"
       THEN /\ drv_pc' = "bcast_next"
            /\ bcast' = [bcast EXCEPT !.disconnected = @ \cup {bcast.cur}]
       ELSE UNCHANGED <<drv_pc, bcast>>
    /\ UNCHANGED <<smsVars, svcVars, held, genVars, lockVars, mqttVars, tick_frame,
                   active_connections, latest_data, driver, pending_results,
                   sent_to, clients, initial_state>>

\* the application with its shutdown, and the threads started for send_alert
NextShutdown ==
    \/ DriverStep
    \/ WriteCompletes
    \/ Stop
    \/ ShutdownEvent
    \/ \E c \in Clients : Connect(c)
    \/ \E c \in Clients : Disconnect(c)
    \/ \E t \in alert_threads, o \in Outcomes : SendAlertReturns(t, o)

SpecShutdown == Init /\ [][NextShutdown]_vars

\* stop() was called on a running stream_loop
StopRequested ==
    /\ driver = "stream_loop"
    /\ ~is_running
    /\ drv_pc \in {"sleep", "loop", "stopped"}

\* the background task was cancelled
CancelRequested == call.op = "shutdown_event"

\* send_alert goes on in some thread in this step
AlertGoesOn == \E t \in alert_threads : t.pc = "started" /\ t \notin alert_threads'

\* C28, as stated: after stop(), or after the cancellation of the background
\* task, no further tick is performed, no notification in flight goes on,
\* and every history holds one whole envelope per sample taken.
C28_CancelledPromptly ==
    [][(StopRequested \/ CancelRequested) =>
          /\ tick_count' = tick_count
          /\ ~AlertGoesOn
          /\ \A b \in Batches : Len(batch_history'[b]) = current_index'[b]
      ]_vars

(***************************************************************************)
(* History and cursor between ticks (under SpecRef: every call of          *)
(* process_all_batches is one step, so no state is inside a tick)          *)
(***************************************************************************)
\* C29, as stated: whenever no tick is in progress, the history of every
\* batch is as long as the batch's cursor is far, and its i-th envelope
\* (counting from 0) carries sample_index i.
C29_HistoryMatchesCursor ==
    \A b \in Batches :
        /\ Len(batch_history[b]) = current_index[b]
        /\ \A i \in 1..Len(batch_history[b]) :
              batch_history[b][i].data_point.sample_index = i - 1

(***************************************************************************)
(* The snapshot and the global tick (under SpecJoin)                       *)
(***************************************************************************)
\* batch b is exhausted: get_next_data_point has returned None for it, which
\* the run loop sees as an empty list of results
HasEnded(b) == AtEnd(b) /\ tick_results = <<>>

\* the envelopes of the snapshot snap, for the batches in bs, are of one tick
OneGlobalTick(snap, bs) ==
    \A b1 \in DOMAIN snap \cap bs, b2 \in DOMAIN snap \cap bs :
        snap[b1].data_point.sample_index = snap[b2].data_point.sample_index

\* C30, as stated: the snapshot sent to a subscriber that joins, at whatever
\* moment, is consistent with one global tick: the envelopes it holds for
\* the batches that are not exhausted all carry the same sample index.
C30_SnapshotOfOneTick ==
    [][\A c \in DOMAIN initial_state : Joins(c) =>
          \A k \in 1..Len(initial_state'[c]) :
              OneGlobalTick(initial_state'[c][k],
                            {b \in Batches : ~HasEnded(b)})
      ]_vars

(***************************************************************************)
(* Subscribers that come and go during a broadcast (under Spec)            *)
(***************************************************************************)
\* C31, as stated: a subscriber connecting or disconnecting while a
\* broadcast is in progress never raises out of the broadcast and never ends
\* the run loop.
C31_BroadcastSurvivesJoinLeave ==
    [][(drv_pc = "bcast_next" \/ drv_pc = "await_send") =>
          /\ drv_pc' # "crashed"
          /\ bcast.state' # "raised"
      ]_vars

(***************************************************************************)
(* The snapshot and the updates that follow it (under SpecJoin)            *)
(***************************************************************************)
\* the batch_update written to websocket c in this step
WrittenTo(c) == c \in sent_to' /\ c \notin sent_to

\* the batch_update being broadcast
Update == Head(pending_results)

\* C32: for a subscriber that joins, the snapshot is the first data message:
\* nothing is written to a websocket that has not joined, and a batch_update
\* written to it after the snapshot is at least as recent as the snapshot's
\* entry of that batch.
C32_SnapshotFirstThenNewer ==
    [][\A c \in DOMAIN initial_state :
          /\ clients[c] = "new" => c \notin sent_to /\ initial_state[c] = <<>>
          /\ WrittenTo(c) =>
                /\ clients[c] = "open"
                /\ \A k \in 1..Len(initial_state[c]) :
                      Update.batch_number \in DOMAIN initial_state[c][k] =>
                          Update.data_point.sample_index >=
                            initial_state[c][k][Update.batch_number].data_point.sample_index
      ]_vars

\* a subscriber joined during a broadcast, was sent a snapshot, and then the
\* update of that broadcast
C32_Witness ==
    \E c \in DOMAIN initial_state :
        /\ clients[c] = "open"
        /\ c \in sent_to
        /\ c \notin bcast.orig
        /\ initial_state[c] # <<>>
        /\ pending_results # <<>>
        /\ Update.batch_number \in DOMAIN initial_state[c][1]
        /\ initial_state[c][1][Update.batch_number] = Update

(***************************************************************************)
(* Concurrent callers of StreamingService.get_next_data_point, statement   *)
(* by statement (under SpecCallers)                                        *)
(***************************************************************************)
\* caller t enters get_next_data_point(b)
GndpCall(t, b) ==
    /\ callers[t].pc = "idle"
    /\ callers' = [callers EXCEPT ![t].pc = "acquire", ![t].batch = b]
    /\ UNCHANGED <<smsVars, svcVars, held, genVars, lock, mqttVars, tick_frame,
                   call, mainVars>>

\* a variant that enters the body without taking the lock
GndpAcquire_NoLock(t) ==
    /\ callers[t].pc = "acquire"
    /\ callers' = [callers EXCEPT ![t].pc = "read"]
    /\ UNCHANGED <<smsVars, svcVars, held, genVars, lock, mqttVars, tick_frame,
                   call, mainVars>>

\* with self._lock: the caller goes on when the lock is free, and holds it
GndpAcquire(t) ==
    /\ callers[t].pc = "acquire"
    /\ lock = 0
    /\ lock' = t
    /\ callers' = [callers EXCEPT ![t].pc = "read"]
    /\ UNCHANGED <<smsVars, svcVars, held, genVars, mqttVars, tick_frame,
                   call, mainVars>>

\* if batch_num not in self.batch_data: self.initialize();
\* batch = self.batch_data[batch_num]; idx = self.current_index[batch_num]
GndpRead(t) ==
    /\ callers[t].pc = "read"
    /\ \E bd \in DataAfterLookup(callers[t].batch) : batch_data' = bd
    /\ callers' = [callers EXCEPT ![t].pc = "check",
                                  ![t].idx = current_index[callers[t].batch]]
    /\ UNCHANGED <<smsVars, current_index, batch_history, is_running,
                   tick_results, tick_count, held, genVars, lock, mqttVars,
                   tick_frame, call, mainVars>>

\* if idx >= len(batch["timestamps"]): return None; else the data point is
\* built from index idx of the profile
GndpCheck(t) ==
    /\ callers[t].pc = "check"
    /\ callers' = [callers EXCEPT
                     ![t].pc = IF callers[t].idx >= Len(batch_data[callers[t].batch])
                               THEN "return_none" ELSE "store"]
    /\ UNCHANGED <<smsVars, svcVars, held, genVars, lock, mqttVars, tick_frame,
                   call, mainVars>>

\* self.current_index[batch_num] = idx + 1
GndpStore(t) ==
    /\ callers[t].pc = "store"
    /\ current_index' = [current_index EXCEPT ![callers[t].batch] = callers[t].idx + 1]
    /\ callers' = [callers EXCEPT ![t].pc = "return"]
    /\ UNCHANGED <<smsVars, batch_data, batch_history, is_running,
                   tick_results, tick_count, held, genVars, lock, mqttVars,
                   tick_frame, call, mainVars>>

\* return: the with block is left, the lock is released if this caller holds
\* it, and the caller has the data point of index idx, or None
GndpReturn(t) ==
    /\ callers[t].pc \in {"return", "return_none"}
    /\ lock' = IF lock = t THEN 0 ELSE lock
    /\ callers' = [callers EXCEPT
                     ![t].pc = "idle",
                     ![t].got = IF callers[t].pc = "return"
                                THEN @ \cup {<<callers[t].batch, callers[t].idx>>}
                                ELSE @]
    /\ UNCHANGED <<smsVars, svcVars, held, genVars, mqttVars, tick_frame,
                   call, mainVars>>

\* the batch the concurrent callers ask for
CallerBatches == {FirstBatch}

NextCallers ==
    \/ \E t \in Callers, b \in CallerBatches : GndpCall(t, b)
    \/ \E t \in Callers : GndpAcquire(t)
    \/ \E t \in Callers : GndpRead(t)
    \/ \E t \in Callers : GndpCheck(t)
    \/ \E t \in Callers : GndpStore(t)
    \/ \E t \in Callers : GndpReturn(t)

SpecCallers == InitRequests /\ [][NextCallers]_vars

\* the callers that were returned sample idx of batch b, or are about to be
Holders(b, idx) ==
    {t \in Callers : \/ <<b, idx>> \in callers[t].got
                     \/ /\ callers[t].pc = "return"
                        /\ callers[t].batch = b
                        /\ callers[t].idx = idx}

\* C33: with concurrent callers of get_next_data_point each sample index of
\* a batch is handed out to exactly one caller: whenever no caller is inside
\* the locked body, every index below the cursor has been returned to exactly
\* one caller and no index at or above it to any, so none is returned twice,
\* none is skipped and the cursor equals the number of samples handed out.
C33_EachIndexOnce ==
    lock = 0 =>
        \A b \in Batches :
            /\ current_index[b] \in 0..NumSamples
            /\ \A idx \in 0..(NumSamples - 1) :
                  Cardinality(Holders(b, idx)) = IF idx < current_index[b] THEN 1 ELSE 0

\* both callers were returned samples of one batch, which is at its end
C33_Witness ==
    /\ lock = 0
    /\ \A t \in Callers : callers[t].pc = "idle"
    /\ \E b \in Batches :
          /\ current_index[b] = NumSamples
          /\ \E t1 \in Callers, t2 \in Callers :
                /\ t1 # t2
                /\ <<b, 0>> \in callers[t1].got
                /\ <<b, NumSamples - 1>> \in callers[t2].got

(***************************************************************************)
(* The order of the alerts of one batch (under SpecAlerts)                 *)
(***************************************************************************)
\* send_alert has run in thread t
Delivered(t) == t.pc # "started"

\* C34, as stated: the alerts of one batch are delivered in the order in
\* which their transitions were detected: when the alert of a later tick has
\* been delivered, the alert of every earlier tick of that batch has been too.
C34_AlertsInDetectionOrder ==
    \A t1 \in alert_threads, t2 \in alert_threads :
        (t1.batch = t2.batch /\ t1.index < t2.index /\ Delivered(t2))
            => Delivered(t1)

(***************************************************************************)
(* MQTTSubscriber._on_message (under SpecSubscriber)                       *)
(***************************************************************************)
\* self.batch_history[batch_num][-144:]
HistoryCap == 144

\* the messages that make _on_message fail are explored among the first
\* MaxErrors messages to arrive
MaxErrors == 1

\* the payloads a message can carry: a complete data point, a data point
\* without its "ph" field, and bytes that are not JSON
Payloads == {"point", "no_ph", "malformed"}

\* the batch numbers in the topics of the messages: one batch, and a number
\* that is no batch
Topics == {FirstBatch - 1, FirstBatch}

\* a variant that keeps the first n entries
KeepLast_Oldest(h, n) == IF Len(h) > n THEN SubSeq(h, 1, n) ELSE h

\* if len(h) > n: h = h[-n:]
KeepLast(h, n) == IF Len(h) > n THEN SubSeq(h, Len(h) - n + 1, Len(h)) ELSE h

\* where _on_message raises for a message of topic batch b and payload p:
\* in json.loads, at self.batch_history[batch_num], in _compare_batch
\* (data_point["ph"]), or nowhere
RaisesAt(b, p) ==
    IF p = "malformed" THEN "loads"
    ELSE IF b \notin Batches THEN "history"
    ELSE IF golden_loaded /\ p = "no_ph" THEN "compare"
    ELSE "nowhere"

\* _on_message for the next message arriving, of topic batch b and payload p:
\* the payload is appended and the history cut to its last 144 entries before
\* the comparison is made; any exception is caught and printed
OnMessage(b, p) ==
    /\ subscriber.received < HistoryCap + 2
    /\ RaisesAt(b, p) # "nowhere" => subscriber.received < MaxErrors
    /\ LET n == subscriber.received + 1
           at == RaisesAt(b, p)
           appended == at \in {"compare", "nowhere"}
       IN  subscriber' =
             [batch_history |->
                 IF appended
                 THEN [subscriber.batch_history EXCEPT
                         ![b] = KeepLast(Append(@, [n |-> n, payload |-> p]), HistoryCap)]
                 ELSE subscriber.batch_history,
              received |-> n,
              callbacks |-> subscriber.callbacks + (IF at = "nowhere" THEN 1 ELSE 0),
              errors |-> subscriber.errors + (IF at = "nowhere" THEN 0 ELSE 1),
              last |-> [batch |-> b, payload |-> p]]
    /\ UNCHANGED <<smsVars, svcVars, held, genVars, lockVars, publisher,
                   tick_frame, call, mainVars>>

NextSubscriber == \E b \in Topics, p \in Payloads : OnMessage(b, p)

SpecSubscriber == InitRequests /\ [][NextSubscriber]_vars

\* _on_message fails in this step
MessageFails == subscriber'.errors = subscriber.errors + 1

\* C35, as stated: when _on_message fails while processing a message, the
\* error is swallowed, the comparison callback is not invoked, and
\* batch_history is left exactly as it was before the message.
C35_FailedMessageLeavesNoTrace ==
    [][MessageFails =>
          /\ subscriber'.callbacks = subscriber.callbacks
          /\ subscriber'.batch_history = subscriber.batch_history
      ]_vars

\* a point of batch b is received in this step: the payload is JSON and the
\* topic names a batch
PointReceived(b) ==
    /\ subscriber'.received = subscriber.received + 1
    /\ subscriber'.last.batch = b
    /\ subscriber'.last.payload # "malformed"

\* C37: the capped history never holds more than 144 entries of a batch after
\* a message has been processed, and it holds the most recent received points
\* of the batch in arrival order: a point received becomes the last entry, the
\* entries before it are the most recent ones of the history before, in their
\* order, and one entry is dropped only when the history was full.
C37_CappedHistoryKeepsMostRecent ==
    [][\A b \in Batches :
          LET h == subscriber.batch_history[b]
              h2 == subscriber'.batch_history[b]
          IN  /\ Len(h2) <= HistoryCap
              /\ PointReceived(b) =>
                    /\ h2[Len(h2)].n = subscriber'.received
                    /\ Len(h2) = IF Len(h) < HistoryCap THEN Len(h) + 1 ELSE HistoryCap
                    /\ \A i \in 1..(Len(h2) - 1) :
                          h2[i] = h[Len(h) - (Len(h2) - 1) + i]
      ]_vars

\* the history of a batch is full and its oldest point has been dropped
C37_Witness ==
    \E b \in Batches :
        LET h == subscriber.batch_history[b]
        IN  /\ Len(h) = HistoryCap
            /\ h[1].n > 1
            /\ h[HistoryCap].n = subscriber.received

(***************************************************************************)
(* MQTTPublisher, the publisher whose cursors wrap (under SpecPublisher)   *)
(***************************************************************************)
\* calls of publish_batch_point explored for one batch: two turns of a
\* profile and one call more
MaxPublished == 2 * NumSamples + 1

\* the batches published
PublishBatches == {FirstBatch, LastBatch}

\* a variant that stays on the last sample of the profile
NextIndex_Stay(idx, len) == IF idx + 1 < len THEN idx + 1 ELSE idx

\* (idx + 1) % len(batch["timestamps"])
NextIndex(idx, len) == (idx + 1) % len

\* generate_all_batches()
GenerateAllBatches ==
    /\ DOMAIN publisher.batch_data = {}
    /\ \E d \in RunDraws :
          publisher' = [publisher EXCEPT !.batch_data = InitializeData(d)]
    /\ UNCHANGED <<smsVars, svcVars, held, genVars, lockVars, subscriber,
                   tick_frame, call, mainVars>>

\* publish_batch_point(b): the profiles are generated if b has none; the
\* point at the cursor is published and returned, and the cursor moves on,
\* back to 0 after the last sample
PublishBatchPoint(b) ==
    /\ publisher.published[b] < MaxPublished
    /\ \E bd \in (IF b \in DOMAIN publisher.batch_data
                  THEN {publisher.batch_data}
                  ELSE {InitializeData(d) : d \in RunDraws}) :
         LET idx == publisher.current_index[b]
         IN  publisher' =
               [batch_data |-> bd,
                current_index |-> [publisher.current_index EXCEPT
                                     ![b] = NextIndex(idx, Len(bd[b]))],
                published |-> [publisher.published EXCEPT ![b] = @ + 1],
                last |-> <<DataPoint(bd, b, idx)>>]
    /\ UNCHANGED <<smsVars, svcVars, held, genVars, lockVars, subscriber,
                   tick_frame, call, mainVars>>

NextPublisher ==
    \/ GenerateAllBatches
    \/ \E b \in PublishBatches : PublishBatchPoint(b)

SpecPublisher == InitRequests /\ [][NextPublisher]_vars

\* publish_batch_point(b) returns in this step
Published(b) == publisher'.published[b] = publisher.published[b] + 1

\* C36: in the publisher each cursor wraps forever: after every
\* publish_batch_point the cursor is in 0..len(profile)-1 and is
\* (previous + 1) mod len(profile), the point published is the profile's
\* sample at the previous cursor, whose index is the number of points of the
\* batch published before, modulo len(profile), and the publisher is never
\* at the end of a profile.
C36_CursorWrapsForever ==
    [][\A b \in Batches :
          Published(b) =>
            LET len == Len(publisher'.batch_data[b])
                prev == publisher.current_index[b]
                dp == publisher'.last[1]
            IN  /\ publisher'.current_index[b] \in 0..(len - 1)
                /\ publisher'.current_index[b] = (prev + 1) % len
                /\ dp.batch_number = b
                /\ dp.sample_index = prev
                /\ dp.sample_index = publisher.published[b] % len
                /\ dp.ph = publisher'.batch_data[b][prev + 1].ph
                /\ \A x \in Batches \ {b} :
                      publisher'.current_index[x] = publisher.current_index[x]
      ]_vars

\* a batch was published through two whole turns of its profile and is on
\* its first sample again
C36_Witness ==
    \E b \in Batches :
        /\ publisher.published[b] = 2 * NumSamples + 1
        /\ publisher.last[1].batch_number = b
        /\ publisher.last[1].sample_index = 0
        /\ publisher.current_index[b] = 1 % NumSamples

(***************************************************************************)
(* The published score and the published status (under SpecCompare)        *)
(***************************************************************************)
\* get_summary_statistics: the status it counts a batch under, from the
\* published quality_score (in tenths): >= 95, >= 90, >= 80
SummaryStatus(score10) ==
    IF score10 >= 950 THEN "perfect"
    ELSE IF score10 >= 900 THEN "acceptable"
    ELSE IF score10 >= 800 THEN "concerning"
    ELSE "failed"

\* C38, as stated: for every envelope of compare_data_point the published
\* overall status is the band of the published quality_score, so that
\* /api/summary counts the batch under the status its comparison carries.
C38_StatusAgreesWithPublishedScore ==
    call.op = "compare_data_point" =>
        SummaryStatus(call.body[1].quality_score) = call.body[1].status.overall

(***************************************************************************)
(* The full-series path: _get_deviation_status and _generate_assessment    *)
(* (under SpecAssessment); numbers in hundredths                           *)
(***************************************************************************)
\* x >= t and x < t for a float x and a number t: both are false for nan
Geq(x, t) == x.k = "inf" \/ (x.k = "num" /\ x.v >= t)
Less(x, t) == x.k = "num" /\ x.v < t

\* GOLDEN_STANDARD_CONFIG: the warning and the critical threshold of a
\* parameter as the constructor reads them
WarningThreshold == [ph |-> 30, temperature |-> 200, co2 |-> 150]
CriticalThreshold == [ph |-> 50, temperature |-> 350, co2 |-> 300]

\* COMPARISON_CONFIG["similarity_threshold"]
SimilarityThreshold == 85

\* a variant that decides "critical" on the mean absolute error
GetDeviationStatus_OnMean(param, mae, max_dev) ==
    IF Geq(mae, CriticalThreshold[param]) THEN "critical"
    ELSE IF Geq(mae, WarningThreshold[param]) THEN "warning"
    ELSE "normal"

\* _get_deviation_status(param, mae, max_dev)
GetDeviationStatus(param, mae, max_dev) ==
    IF Geq(max_dev, CriticalThreshold[param]) THEN "critical"
    ELSE IF Geq(mae, WarningThreshold[param]) THEN "warning"
    ELSE "normal"

\* a variant that does not look at the anomalies
GenerateAssessment_NoAnomalies(status, has_anomalies, overall) ==
    IF \E p \in Params : status[p] = "critical" THEN "critical"
    ELSE IF \E p \in Params : status[p] = "warning" THEN "warning"
    ELSE IF Less(overall, SimilarityThreshold) THEN "warning"
    ELSE "normal"

\* _generate_assessment(deviations, anomalies, similarity): overall_status,
\* from the status of each parameter, anomalies["has_anomalies"] and
\* similarity["overall"]
GenerateAssessment(status, has_anomalies, overall) ==
    IF \E p \in Params : status[p] = "critical" THEN "critical"
    ELSE IF \E p \in Params : status[p] = "warning" THEN "warning"
    ELSE IF has_anomalies THEN "warning"
    ELSE IF Less(overall, SimilarityThreshold) THEN "warning"
    ELSE "normal"

\* the values of mae and max_deviation explored: on and just under every
\* threshold, and nan (a series that holds a nan)
Metrics == {Num(v) : v \in {0, 29, 30, 49, 50, 149, 150, 199, 200, 299, 300,
                            349, 350}} \cup {NaN}

\* the values of similarity["overall"] explored
Similarities == {Num(0), Num(84), Num(85), Num(100), NaN}

\* one call of _get_deviation_status; the mean of the absolute deviations is
\* not above their maximum
DeviationStatusCall(param, mae, max_dev) ==
    /\ call.n < MaxCalls
    /\ (IsFinite(mae) /\ IsFinite(max_dev)) => mae.v <= max_dev.v
    /\ IsFinite(mae) <=> IsFinite(max_dev)
    /\ call' = Answer("_get_deviation_status", 0, "ok",
                      <<param, mae, max_dev, GetDeviationStatus(param, mae, max_dev)>>)
    /\ UNCHANGED <<smsVars, svcVars, held, genVars, lockVars, mqttVars,
                   tick_frame, mainVars>>

\* one call of _generate_assessment
AssessmentCall(status, has_anomalies, overall) ==
    /\ call.n < MaxCalls
    /\ call' = Answer("_generate_assessment", 0, "ok",
                      <<status, has_anomalies, overall,
                        GenerateAssessment(status, has_anomalies, overall)>>)
    /\ UNCHANGED <<smsVars, svcVars, held, genVars, lockVars, mqttVars,
                   tick_frame, mainVars>>

NextAssessment ==
    \/ \E param \in Params, mae \in Metrics, max_dev \in Metrics :
          DeviationStatusCall(param, mae, max_dev)
    \/ \E status \in [Params -> {"normal", "warning", "critical"}],
          has_anomalies \in BOOLEAN, overall \in Similarities :
          AssessmentCall(status, has_anomalies, overall)

SpecAssessment == InitRequests /\ [][NextAssessment]_vars

\* C39: in the full-series path the status of a parameter is "critical" when
\* its maximum absolute deviation is at least the critical threshold of the
\* parameter, otherwise "warning" when its mean absolute error is at least
\* the warning threshold, otherwise "normal"; the thresholds are those of the
\* configuration: ph 0.3/0.5, temperature 2.0/3.5, co2 1.5/3.0.
C39_ParameterStatus ==
    call.op = "_get_deviation_status" =>
        LET param == call.body[1]
            mae == call.body[2]
            max_dev == call.body[3]
            status == call.body[4]
            warning == IF param = "ph" THEN 30
                       ELSE IF param = "temperature" THEN 200 ELSE 150
            critical == IF param = "ph" THEN 50
                        ELSE IF param = "temperature" THEN 350 ELSE 300
        IN  /\ status \in {"normal", "warning", "critical"}
            /\ status = "critical" <=> Geq(max_dev, critical)
            /\ status = "warning" <=> (~Geq(max_dev, critical) /\ Geq(mae, warning))

\* a co2 whose mean error, 1.5, is at the warning threshold and whose largest
\* deviation, 2.99, is just under the critical one: "warning"
C39_Witness ==
    /\ call.op = "_get_deviation_status"
    /\ call.body[1] = "co2"
    /\ call.body[2] = Num(150)
    /\ call.body[3] = Num(299)
    /\ call.body[4] = "warning"

\* C40: in the full-series path the overall status is "critical" if any
\* parameter is critical; otherwise "warning" if any parameter is in warning;
\* otherwise "warning" if an outlier was found; otherwise "warning" if the
\* overall similarity is below 0.85; otherwise "normal"; it is always one of
\* the three.
C40_OverallAssessment ==
    call.op = "_generate_assessment" =>
        LET status == call.body[1]
            has_anomalies == call.body[2]
            overall == call.body[3]
            result == call.body[4]
            any(s) == \E p \in Params : status[p] = s
        IN  /\ result \in {"normal", "warning", "critical"}
            /\ result = "critical" <=> any("critical")
            /\ result = "warning" <=>
                  /\ ~any("critical")
                  /\ any("warning") \/ has_anomalies \/ Less(overall, 85)
            /\ result = "normal" <=>
                  /\ ~any("critical") /\ ~any("warning")
                  /\ ~has_anomalies
                  /\ ~Less(overall, 85)

\* every parameter normal and the similarity at 1.0, and the status is
\* "warning" for the outliers alone
C40_Witness ==
    /\ call.op = "_generate_assessment"
    /\ \A p \in Params : call.body[1][p] = "normal"
    /\ call.body[2] = TRUE
    /\ call.body[3] = Num(100)
    /\ call.body[4] = "warning"

=============================================================================
